---- MODULE Spec2Model ----
(***************************************************************************)
(* Scenario-geometry subsystem of the ns-3 scenario files:                 *)
(*   - obstacle (Building) boundaries and their scheduled relocations,     *)
(*     plain (UpdateBuildingPosition) and anchor-avoiding                  *)
(*     (scheduleMoveAvoidingMesh), run by the simulator's event loop;      *)
(*   - attachment of each UE to the nearest eNB;                           *)
(*   - the ASCII position grid written by WriteAsciiPositionGrid.          *)
(* Coordinates are metres and times are seconds, both kept as integers:    *)
(* every literal the scenarios use for them is integral.                   *)
(***************************************************************************)
EXTENDS Integers, Sequences, FiniteSets

VARIABLES
    boundary,   \* BuildingContainer: boundary[b] is building b's Box
    requested,  \* the Box of every SetBoundaries call made at creation, in order
    meshPos,    \* positions of the mesh AP nodes (the anchors), in index order
    events,     \* relocations registered with Simulator::Schedule, in registration order
    fired,      \* fired[i]: the times at which event i was invoked, in order
    calls,      \* calls[i]: the SetBoundaries calls made by event i, in order
    now,        \* Simulator::Now()
    phase,      \* "setup" (main before Run), "render" (main in WriteAsciiPositionGrid),
                \* "running" (in Simulator::Run), "done"
    cur,        \* the event whose callback is executing, 0 when none
    desired,    \* the executing callback's own copy of desired
    bx,         \* the executing callback's candidate Box
    guard,      \* the executing callback's loop counter
    uePos,      \* positions of the UE nodes, in index order
    enbPos,     \* positions of the eNB nodes, in index order
    nextUe,     \* the attach loop's index i (0-based)
    attached,   \* the Attach calls made so far: attached[k] = [ue, enb]
    outcome,    \* "ok" while main runs normally, "crash" once it has aborted
    nodes,      \* NodeContainer given to WriteAsciiPositionGrid: nodes[k] = [mm, p]
    fieldMeters, \* argument fieldMeters
    cellMeters, \* argument cellMeters, the fraction num / den
    W,          \* WriteAsciiPositionGrid's local W
    H,          \* WriteAsciiPositionGrid's local H
    grid,       \* its local grid: grid[r + 1][c + 1] is the char code of grid[r][c]
    rb,         \* the buildings loop's index b
    ri,         \* the overlay loop's index i
    rpc,        \* "idle" (not called), "render" (in the function), "written" (returned);
                \* "idleB", "renderB", "writtenB" for the mesh backhaul scenario's function
    writes,     \* the cells <<row, column>> of grid the last loop iteration assigned
    out         \* what was written to the file

geoVars == <<boundary, requested, meshPos, events, fired, calls, now, phase,
             cur, desired, bx, guard>>
attachVars == <<uePos, enbPos, nextUe, attached, outcome>>
renderVars == <<nodes, fieldMeters, cellMeters, W, H, grid, rb, ri, rpc, writes, out>>
vars == <<boundary, requested, meshPos, events, fired, calls, now, phase,
          cur, desired, bx, guard, uePos, enbPos, nextUe, attached, outcome,
          nodes, fieldMeters, cellMeters, W, H, grid, rb, ri, rpc, writes, out>>

(***************************************************************************)
(* Bounds of the model.                                                    *)
(***************************************************************************)
MaxEvents == 2
MaxCreated == 2
MaxUes == 2
MaxEnbs == 3
MaxBuildings == 2
MaxNodes == 12

(***************************************************************************)
(* Program constants.                                                      *)
(***************************************************************************)
field == 400
simTime == 5
shiftStep == 20
margin == 1
guardLimit == 50
\* std::numeric_limits<double>::max(): above every distance of the model
DBL_MAX == 2147483647

Min(a, b) == IF a < b THEN a ELSE b

Vector(px, py) == [x |-> px, y |-> py]

Box(x0, x1, y0, y1, z0, z1) ==
    [xMin |-> x0, xMax |-> x1, yMin |-> y0, yMax |-> y1, zMin |-> z0, zMax |-> z1]

\* The callback's locals when no callback is executing.
NoBox == Box(0, 0, 0, 0, 0, 0)
NoVector == Vector(0, 0)

(***************************************************************************)
(* Scenario data.                                                          *)
(***************************************************************************)
\* leftBelow, rightBelow, leftAbove, rightAbove, cluster250a, cluster250b,
\* cluster50, in the order they are added to the BuildingContainer.
InitialBoundaries ==
    << Box(0, 60, 96, 104, 0, 10),
       Box(340, 400, 96, 104, 0, 10),
       Box(0, 60, 296, 304, 0, 10),
       Box(340, 400, 296, 304, 0, 10),
       Box(80, 140, 220, 228, 0, 15),
       Box(170, 250, 220, 228, 0, 12),
       Box(255, 335, 20, 28, 0, 18) >>

\* The buildings relocations are scheduled for: cluster250a and cluster250b
\* (the scenario relocates cluster50 by the same calls).
Movable == {5, 6}

\* Mesh0..Mesh3, and a scene with Mesh0 alone.
MeshLayouts ==
    { <<Vector(50, 50), Vector(150, 100), Vector(250, 150), Vector(350, 200)>>,
      <<Vector(50, 50)>> }

\* The times relocations are scheduled at: before, at and after simTime.
Times == {2, 5, 7}

\* (desired, w, h) of the anchor-avoiding relocations: one that overlaps Mesh0,
\* one that overlaps Mesh1 and after a shift has it on its edge, and two that
\* overlap Mesh3 next to the field's right edge. With Mesh0 alone the last
\* three overlap nothing, as the scenario's own relocations do.
AvoidRequests ==
    { [desired |-> Vector(40, 40),   w |-> 60, h |-> 20],
      [desired |-> Vector(130, 95),  w |-> 60, h |-> 8],
      [desired |-> Vector(330, 195), w |-> 60, h |-> 8],
      [desired |-> Vector(345, 195), w |-> 60, h |-> 8] }

\* (newPosition, width, height) of the plain relocations.
PlainRequests ==
    { [desired |-> Vector(200, 180), w |-> 80, h |-> 8] }

(***************************************************************************)
(* UpdateBuildingPosition and the scheduled lambda of                      *)
(* scheduleMoveAvoidingMesh.                                               *)
(***************************************************************************)
NewBounds_Swapped(newPosition, width, height) ==
    Box(newPosition.x + width, newPosition.x,
        newPosition.y + height, newPosition.y, 0, 10)

NewBounds(newPosition, width, height) ==
    Box(newPosition.x, newPosition.x + width,
        newPosition.y, newPosition.y + height, 0, 10)

InitialCandidate_Transposed(d, w, h) ==
    Box(d.x, d.x + h, d.y, d.y + w, 0, 10)

InitialCandidate(d, w, h) ==
    Box(d.x, d.x + w, d.y, d.y + h, 0, 10)

Contains_Strict(box, p) ==
    p.x > box.xMin /\ p.x < box.xMax /\ p.y > box.yMin /\ p.y < box.yMax

Contains(box, p) ==
    p.x >= box.xMin /\ p.x <= box.xMax /\ p.y >= box.yMin /\ p.y <= box.yMax

RECURSIVE overlapsFrom(_, _)
overlapsFrom(box, i) ==
    IF i > Len(meshPos) THEN FALSE
    ELSE IF Contains(box, meshPos[i]) THEN TRUE
    ELSE overlapsFrom(box, i + 1)

overlapsMesh(box) == overlapsFrom(box, 1)

LoopCond_OffByOne(box, g) == overlapsMesh(box) /\ g <= guardLimit

\* the loop giving up after three shifts
LoopCond_GivesUpEarly(box, g) == overlapsMesh(box) /\ g < 3

LoopCond(box, g) == overlapsMesh(box) /\ g < guardLimit

ShiftX_NoClamp(x, w) == x + shiftStep

ShiftX_HalfStep(x, w) == Min(field - w - margin, x + shiftStep \div 2)

\* the candidate sent back to the left edge once it has reached the clamp
ShiftX_Wraps(x, w) ==
    IF x >= field - w - margin THEN 0 ELSE Min(field - w - margin, x + shiftStep)

ShiftX(x, w) == Min(field - w - margin, x + shiftStep)

(***************************************************************************)
(* The simulator's event queue: events run in order of (time, uid); the    *)
(* Stop event is registered after every relocation.                        *)
(***************************************************************************)
Pending == {i \in 1..Len(events) : fired[i] = <<>>}

\* events run in the order they were registered in
Earlier_ByRegistration(i, j) == i <= j

Earlier(i, j) ==
    \/ events[i].at < events[j].at
    \/ events[i].at = events[j].at /\ i <= j

NextEvent == CHOOSE i \in Pending : \A j \in Pending : Earlier(i, j)

RunsBeforeStop_NoStop(at) == TRUE

RunsBeforeStop(at) == at <= simTime

(***************************************************************************)
(* Actions of the relocation scenario.                                     *)
(***************************************************************************)
\* Registration that also moves the obstacle to the requested place at once.
Register_MovesNow(at, b, r, avoid) ==
    /\ phase = "setup"
    /\ Len(events) < MaxEvents
    /\ events' = Append(events,
                        [at |-> at, b |-> b, desired |-> r.desired,
                         w |-> r.w, h |-> r.h, avoid |-> avoid])
    /\ fired' = Append(fired, <<>>)
    /\ calls' = Append(calls, <<>>)
    /\ boundary' = [boundary EXCEPT ![b] = NewBounds(r.desired, r.w, r.h)]
    /\ UNCHANGED <<requested, meshPos, now, phase, cur, desired, bx, guard>>
    /\ UNCHANGED attachVars
    /\ UNCHANGED renderVars

Register(at, b, r, avoid) ==
    /\ phase = "setup"
    /\ Len(events) < MaxEvents
    /\ events' = Append(events,
                        [at |-> at, b |-> b, desired |-> r.desired,
                         w |-> r.w, h |-> r.h, avoid |-> avoid])
    /\ fired' = Append(fired, <<>>)
    /\ calls' = Append(calls, <<>>)
    /\ UNCHANGED <<boundary, requested, meshPos, now, phase, cur, desired, bx, guard>>
    /\ UNCHANGED attachVars
    /\ UNCHANGED renderVars

\* scheduleMoveAvoidingMesh(at, b, desired, w, h)
ScheduleMoveAvoidingMesh ==
    \E at \in Times, b \in Movable, r \in AvoidRequests :
        Register(at, b, r, TRUE)

\* Simulator::Schedule(Seconds(at), &UpdateBuildingPosition, b, newPosition, w, h)
ScheduleUpdateBuildingPosition ==
    \E at \in Times, b \in Movable, r \in PlainRequests :
        Register(at, b, r, FALSE)

\* Simulator::Stop(Seconds(simTime)); Simulator::Run();
StopAndRun ==
    /\ phase = "setup"
    /\ phase' = "running"
    /\ UNCHANGED <<boundary, requested, meshPos, events, fired, calls, now,
                   cur, desired, bx, guard>>
    /\ UNCHANGED attachVars
    /\ UNCHANGED renderVars

CanFire ==
    /\ phase = "running"
    /\ cur = 0
    /\ Pending # {}
    /\ RunsBeforeStop(events[NextEvent].at)

\* UpdateBuildingPosition editing the x and y bounds of the current Box in
\* place instead of building a new Box.
FireUpdateBuildingPosition_EditsInPlace ==
    /\ CanFire
    /\ LET i == NextEvent
           e == events[i]
           newBounds == [boundary[e.b] EXCEPT !.xMin = e.desired.x,
                                              !.xMax = e.desired.x + e.w,
                                              !.yMin = e.desired.y,
                                              !.yMax = e.desired.y + e.h]
       IN /\ ~e.avoid
          /\ now' = e.at
          /\ fired' = [fired EXCEPT ![i] = Append(@, now')]
          /\ boundary' = [boundary EXCEPT ![e.b] = newBounds]
          /\ calls' = [calls EXCEPT ![i] = Append(@, [box |-> newBounds, guard |-> 0])]
    /\ UNCHANGED <<requested, meshPos, events, phase, cur, desired, bx, guard>>
    /\ UNCHANGED attachVars
    /\ UNCHANGED renderVars

\* The event loop invokes UpdateBuildingPosition.
FireUpdateBuildingPosition ==
    /\ CanFire
    /\ LET i == NextEvent
           e == events[i]
           newBounds == NewBounds(e.desired, e.w, e.h)
       IN /\ ~e.avoid
          /\ now' = e.at
          /\ fired' = [fired EXCEPT ![i] = Append(@, now')]
          /\ boundary' = [boundary EXCEPT ![e.b] = newBounds]
          /\ calls' = [calls EXCEPT ![i] = Append(@, [box |-> newBounds, guard |-> 0])]
    /\ UNCHANGED <<requested, meshPos, events, phase, cur, desired, bx, guard>>
    /\ UNCHANGED attachVars
    /\ UNCHANGED renderVars

\* The event loop invokes the lambda: it builds the initial box, guard = 0.
FireMoveAvoidingMesh ==
    /\ CanFire
    /\ LET i == NextEvent
           e == events[i]
       IN /\ e.avoid
          /\ now' = e.at
          /\ fired' = [fired EXCEPT ![i] = Append(@, now')]
          /\ cur' = i
          /\ desired' = e.desired
          /\ bx' = InitialCandidate(e.desired, e.w, e.h)
          /\ guard' = 0
    /\ UNCHANGED <<boundary, requested, meshPos, events, calls, phase>>
    /\ UNCHANGED attachVars
    /\ UNCHANGED renderVars

\* The loop body without the assignment to bx.xMax.
LoopShift_MovesXMinOnly ==
    /\ cur # 0
    /\ LoopCond(bx, guard)
    /\ LET w == events[cur].w
           x == ShiftX(desired.x, w)
       IN /\ desired' = [desired EXCEPT !.x = x]
          /\ bx' = [bx EXCEPT !.xMin = x]
    /\ guard' = guard + 1
    /\ UNCHANGED <<boundary, requested, meshPos, events, fired, calls, now, phase, cur>>
    /\ UNCHANGED attachVars
    /\ UNCHANGED renderVars

\* The loop body with b->SetBoundaries(bx) moved inside the loop.
LoopShift_SetsInLoop ==
    /\ cur # 0
    /\ LoopCond(bx, guard)
    /\ LET w == events[cur].w
           x == ShiftX(desired.x, w)
       IN /\ desired' = [desired EXCEPT !.x = x]
          /\ bx' = [bx EXCEPT !.xMin = x, !.xMax = x + w]
          /\ boundary' = [boundary EXCEPT ![events[cur].b] = bx']
    /\ guard' = guard + 1
    /\ UNCHANGED <<requested, meshPos, events, fired, calls, now, phase, cur>>
    /\ UNCHANGED attachVars
    /\ UNCHANGED renderVars

\* One iteration of while (overlapsMesh() && guard < 50).
LoopShift ==
    /\ cur # 0
    /\ LoopCond(bx, guard)
    /\ LET w == events[cur].w
           x == ShiftX(desired.x, w)
       IN /\ desired' = [desired EXCEPT !.x = x]
          /\ bx' = [bx EXCEPT !.xMin = x, !.xMax = x + w]
    /\ guard' = guard + 1
    /\ UNCHANGED <<boundary, requested, meshPos, events, fired, calls, now, phase, cur>>
    /\ UNCHANGED attachVars
    /\ UNCHANGED renderVars

\* The loop ends, b->SetBoundaries(bx), and the callback returns.
LoopExitSetBoundaries ==
    /\ cur # 0
    /\ ~LoopCond(bx, guard)
    /\ boundary' = [boundary EXCEPT ![events[cur].b] = bx]
    /\ calls' = [calls EXCEPT ![cur] = Append(@, [box |-> bx, guard |-> guard])]
    /\ cur' = 0
    /\ desired' = NoVector
    /\ bx' = NoBox
    /\ guard' = 0
    /\ UNCHANGED <<requested, meshPos, events, fired, now, phase>>
    /\ UNCHANGED attachVars
    /\ UNCHANGED renderVars

\* The Stop event: Run returns, Simulator::Destroy drops what is still queued.
StopFires ==
    /\ phase = "running"
    /\ cur = 0
    /\ IF Pending = {} THEN TRUE ELSE ~RunsBeforeStop(events[NextEvent].at)
    /\ now' = simTime
    /\ phase' = "done"
    /\ UNCHANGED <<boundary, requested, meshPos, events, fired, calls,
                   cur, desired, bx, guard>>
    /\ UNCHANGED attachVars
    /\ UNCHANGED renderVars

\* WriteAsciiPositionGrid is not called: the default cell of 10 m on the field.
RenderIdle ==
    /\ nodes = <<>>
    /\ fieldMeters = field
    /\ cellMeters = [num |-> 10, den |-> 1]
    /\ W = 0
    /\ H = 0
    /\ grid = <<>>
    /\ rb = 0
    /\ ri = 0
    /\ rpc = "idle"
    /\ writes = {}
    /\ out = <<>>

AttachIdle ==
    /\ uePos = <<>>
    /\ enbPos = <<>>
    /\ nextUe = 0
    /\ attached = <<>>
    /\ outcome = "ok"

Init ==
    /\ boundary = InitialBoundaries
    /\ requested = InitialBoundaries
    /\ meshPos \in MeshLayouts
    /\ events = <<>>
    /\ fired = <<>>
    /\ calls = <<>>
    /\ now = 0
    /\ phase = "setup"
    /\ cur = 0
    /\ desired = NoVector
    /\ bx = NoBox
    /\ guard = 0
    /\ AttachIdle
    /\ RenderIdle

Next ==
    \/ ScheduleMoveAvoidingMesh
    \/ ScheduleUpdateBuildingPosition
    \/ StopAndRun
    \/ FireUpdateBuildingPosition
    \/ FireMoveAvoidingMesh
    \/ LoopShift
    \/ LoopExitSetBoundaries
    \/ StopFires

Spec == Init /\ [][Next]_vars

(***************************************************************************)
(* Building creation: CreateObject<Building>() and SetBoundaries(Box(..)), *)
(* which stores the Box it is given.                                       *)
(***************************************************************************)
CreateBoxes ==
    { Box(x0, x1, y0, y1, 0, 10) : x0 \in {0, 60}, x1 \in {0, 60},
                                   y0 \in {96, 104}, y1 \in {96, 104} }

CreateBuilding ==
    \E box \in CreateBoxes :
        /\ Len(boundary) < MaxCreated
        /\ boundary' = Append(boundary, box)
        /\ requested' = Append(requested, box)
        /\ UNCHANGED <<meshPos, events, fired, calls, now, phase, cur, desired, bx, guard>>
        /\ UNCHANGED attachVars
        /\ UNCHANGED renderVars

InitCreate ==
    /\ boundary = <<>>
    /\ requested = <<>>
    /\ meshPos = <<>>
    /\ events = <<>>
    /\ fired = <<>>
    /\ calls = <<>>
    /\ now = 0
    /\ phase = "setup"
    /\ cur = 0
    /\ desired = NoVector
    /\ bx = NoBox
    /\ guard = 0
    /\ AttachIdle
    /\ RenderIdle

NextCreate == CreateBuilding

SpecCreate == InitCreate /\ [][NextCreate]_vars

(***************************************************************************)
(* Attach each UE to the nearest eNB by distance.                          *)
(***************************************************************************)
Points == {Vector(px, py) : px \in {100, 200, 300}, py \in {0, 200}}

SeqsUpTo(S, lo, hi) == UNION {[1..n -> S] : n \in lo..hi}

Dist2(a, b) == (a.x - b.x) * (a.x - b.x) + (a.y - b.y) * (a.y - b.y)

Closer_OrEqual(dist2, bestDist) == dist2 <= bestDist

Closer(dist2, bestDist) == dist2 < bestDist

\* The inner loop from index e (0-based) on; its result is bestEnbIdx.
RECURSIVE ScanEnbs(_, _, _, _)
ScanEnbs(p, e, bestDist, bestEnbIdx) ==
    IF e >= Len(enbPos) THEN bestEnbIdx
    ELSE LET dist2 == Dist2(p, enbPos[e + 1])
         IN IF Closer(dist2, bestDist)
            THEN ScanEnbs(p, e + 1, dist2, e)
            ELSE ScanEnbs(p, e + 1, bestDist, bestEnbIdx)

NearestEnb(p) == ScanEnbs(p, 0, DBL_MAX, 0)

\* One iteration of the outer loop, for UE nextUe.
AttachUe ==
    /\ phase = "setup"
    /\ outcome = "ok"
    /\ nextUe < Len(uePos)
    /\ LET bestEnbIdx == NearestEnb(uePos[nextUe + 1])
       IN IF bestEnbIdx < Len(enbPos)
          THEN /\ attached' = Append(attached,
                                     [ue |-> nextUe, enb |-> bestEnbIdx, valid |-> TRUE])
               /\ nextUe' = nextUe + 1
               /\ outcome' = outcome
          ELSE \* enbDevs.Get(bestEnbIdx) reads past the end of the container:
               \* the run aborts there, or Attach is entered with what was read.
               \/ /\ outcome' = "crash"
                  /\ UNCHANGED <<attached, nextUe>>
               \/ /\ attached' = Append(attached,
                                        [ue |-> nextUe, enb |-> bestEnbIdx, valid |-> FALSE])
                  /\ nextUe' = nextUe + 1
                  /\ outcome' = outcome
    /\ UNCHANGED <<uePos, enbPos>>
    /\ UNCHANGED geoVars
    /\ UNCHANGED renderVars

InitAttach ==
    /\ boundary = InitialBoundaries
    /\ requested = InitialBoundaries
    /\ meshPos = <<>>
    /\ events = <<>>
    /\ fired = <<>>
    /\ calls = <<>>
    /\ now = 0
    /\ phase = "setup"
    /\ cur = 0
    /\ desired = NoVector
    /\ bx = NoBox
    /\ guard = 0
    /\ uePos \in SeqsUpTo(Points, 1, MaxUes)
    /\ enbPos \in SeqsUpTo(Points, 0, MaxEnbs)
    /\ nextUe = 0
    /\ attached = <<>>
    /\ outcome = "ok"
    /\ RenderIdle

NextAttach == AttachUe

SpecAttach == InitAttach /\ [][NextAttach]_vars

(***************************************************************************)
(* The position grid: WriteAsciiPositionGrid(nodes, buildings, fieldMeters,*)
(* cellMeters).  A double quotient a / b is kept as the pair a, b (b > 0)  *)
(* until the code converts it to int; chars are their ASCII codes.  A node *)
(* position is p metres plus c hundredths of a metre; a printed number is  *)
(* kept in hundredths.                                                     *)
(***************************************************************************)
Max(a, b) == IF a > b THEN a ELSE b

\* static_cast<int>(a / b): truncation toward zero
StaticCastInt(a, b) == IF a >= 0 THEN a \div b ELSE -((-a) \div b)

\* static_cast<int>(std::floor(a / b))
StdFloor(a, b) == a \div b

\* static_cast<int>(std::round(a / b)): nearest, halves away from zero
StdRound(a, b) ==
    IF a >= 0 THEN (2 * a + b) \div (2 * b) ELSE -((2 * (-a) + b) \div (2 * b))

\* '.', '#', 'S', 'D', '0', 'a'
Free == 46
Hash == 35
CharS == 83
CharD == 68
Char0 == 48
CharA == 97

\* W computed without the extra cell
GridWidth_NoExtraCell(fieldM, cell) == StaticCastInt(fieldM * cell.den, cell.num)

\* const int W = static_cast<int>((fieldMax - fieldMin) / cellMeters) + 1;
GridWidth(fieldM, cell) == StaticCastInt(fieldM * cell.den, cell.num) + 1

\* the row index used without the flip
RowOf_NoFlip(gy, h) == gy

\* grid[H - 1 - gy]
RowOf(gy, h) == h - 1 - gy

\* the cast applied without std::floor
CellFloor_Truncating(x, cell) == StaticCastInt(x * cell.den, cell.num)

\* static_cast<int>(std::floor((x - fieldMin) / cellMeters))
CellFloor(x, cell) == StdFloor(x * cell.den, cell.num)

\* the quotient floored where the code rounds it
CellRound_Floor(x, cell) == StdFloor(x * cell.den, cell.num)

\* static_cast<int>(std::round((x - fieldMin) / cellMeters))
CellRound(x, cell) == StdRound(x * cell.den, cell.num)

\* a cell size for coordinates given in hundredths of a metre
Centi(cell) == [num |-> 100 * cell.num, den |-> cell.den]

\* Vector p = mm->GetPosition(), in hundredths of a metre
PosCm(nd) == Vector(100 * nd.p.x + nd.c.x, 100 * nd.p.y + nd.c.y)

\* x0, x1, y0, y1 of a building
CellRange(box, cell, w, h) ==
    [x0 |-> Max(0, CellFloor(box.xMin, cell)),
     x1 |-> Min(w - 1, CellFloor(box.xMax, cell)),
     y0 |-> Max(0, CellFloor(box.yMin, cell)),
     y1 |-> Min(h - 1, CellFloor(box.yMax, cell))]

\* nodeChar testing the last index first
nodeChar_LastFirst(i, n) ==
    IF i + 1 = n THEN CharD
    ELSE IF i = 0 THEN CharS
    ELSE IF i < 10 THEN Char0 + i
    ELSE CharA + (i - 10)

\* auto nodeChar = [&](uint32_t i) -> char
nodeChar(i, n) ==
    IF i = 0 THEN CharS
    ELSE IF i + 1 = n THEN CharD
    ELSE IF i < 10 THEN Char0 + i
    ELSE CharA + (i - 10)

\* the skip test with an off-by-one upper bound
Skipped_OffByOne(gx, gy, w, h) == gx < 0 \/ gx > w \/ gy < 0 \/ gy > h

\* if (gx < 0 || gx >= W || gy < 0 || gy >= H) continue;
Skipped(gx, gy, w, h) == gx < 0 \/ gx >= w \/ gy < 0 \/ gy >= h

\* <<row, column>> is an element of grid
InGrid(c) == c[1] \in 0..(H - 1) /\ c[2] \in 0..(W - 1)

\* grid after grid[row][column] = ch for every <<row, column>> of cells
Assign(g, cells, ch) ==
    [r \in DOMAIN g |->
        [c \in DOMAIN g[r] |-> IF <<r - 1, c - 1>> \in cells THEN ch ELSE g[r][c]]]

\* The assignments of one loop iteration.  An assignment outside grid is
\* undefined behaviour: the run aborts, or goes on with grid as it is.
AssignCells(cells, ch) ==
    /\ writes' = cells
    /\ IF \A c \in cells : InGrid(c)
       THEN grid' = Assign(grid, cells, ch) /\ rpc' = rpc
       ELSE \/ grid' = grid /\ rpc' = "crash"
            \/ grid' = Assign(grid, cells, ch) /\ rpc' = rpc

\* The call: W, H and the grid filled with '.'.
WriteAsciiPositionGrid ==
    /\ rpc = "idle"
    /\ phase = "setup"
    /\ W' = GridWidth(fieldMeters, cellMeters)
    /\ H' = W'
    /\ grid' = [r \in 1..H' |-> [c \in 1..W' |-> Free]]
    /\ rb' = 0
    /\ ri' = 0
    /\ rpc' = "render"
    /\ phase' = "render"
    /\ writes' = {}
    /\ UNCHANGED <<nodes, fieldMeters, cellMeters, out>>
    /\ UNCHANGED <<boundary, requested, meshPos, events, fired, calls, now,
                   cur, desired, bx, guard>>
    /\ UNCHANGED attachVars

\* The buildings loop storing the clamped cell range back into the building.
MarkBuilding_StoresCells ==
    /\ rpc = "render"
    /\ rb < Len(boundary)
    /\ LET rg == CellRange(boundary[rb + 1], cellMeters, W, H)
       IN /\ AssignCells({<<RowOf(gy, H), gx>> : gy \in rg.y0..rg.y1, gx \in rg.x0..rg.x1},
                         Hash)
          /\ boundary' = [boundary EXCEPT ![rb + 1].xMin = rg.x0, ![rb + 1].xMax = rg.x1,
                                          ![rb + 1].yMin = rg.y0, ![rb + 1].yMax = rg.y1]
    /\ rb' = rb + 1
    /\ UNCHANGED <<nodes, fieldMeters, cellMeters, W, H, ri, out>>
    /\ UNCHANGED <<requested, meshPos, events, fired, calls, now, phase,
                   cur, desired, bx, guard>>
    /\ UNCHANGED attachVars

\* One iteration of the buildings loop.
MarkBuilding ==
    /\ rpc = "render"
    /\ rb < Len(boundary)
    /\ LET rg == CellRange(boundary[rb + 1], cellMeters, W, H)
       IN AssignCells({<<RowOf(gy, H), gx>> : gy \in rg.y0..rg.y1, gx \in rg.x0..rg.x1},
                      Hash)
    /\ rb' = rb + 1
    /\ UNCHANGED <<nodes, fieldMeters, cellMeters, W, H, ri, out>>
    /\ UNCHANGED geoVars
    /\ UNCHANGED attachVars

\* The overlay assigning a node's char only where no building is marked.
OverlayNode_UnderBuildings ==
    /\ rpc = "render"
    /\ rb = Len(boundary)
    /\ ri < Len(nodes)
    /\ LET nd == nodes[ri + 1]
           gx == CellRound(PosCm(nd).x, Centi(cellMeters))
           gy == CellRound(PosCm(nd).y, Centi(cellMeters))
       IN IF ~nd.mm \/ Skipped(gx, gy, W, H)
          THEN grid' = grid /\ writes' = {} /\ rpc' = rpc
          ELSE IF grid[RowOf(gy, H) + 1][gx + 1] = Hash
          THEN grid' = grid /\ writes' = {} /\ rpc' = rpc
          ELSE AssignCells({<<RowOf(gy, H), gx>>}, nodeChar(ri, Len(nodes)))
    /\ ri' = ri + 1
    /\ UNCHANGED <<nodes, fieldMeters, cellMeters, W, H, rb, out>>
    /\ UNCHANGED geoVars
    /\ UNCHANGED attachVars

\* One iteration of the overlay loop.
OverlayNode ==
    /\ rpc = "render"
    /\ rb = Len(boundary)
    /\ ri < Len(nodes)
    /\ LET nd == nodes[ri + 1]
           gx == CellRound(PosCm(nd).x, Centi(cellMeters))
           gy == CellRound(PosCm(nd).y, Centi(cellMeters))
       IN IF ~nd.mm \/ Skipped(gx, gy, W, H)
          THEN grid' = grid /\ writes' = {} /\ rpc' = rpc
          ELSE AssignCells({<<RowOf(gy, H), gx>>}, nodeChar(ri, Len(nodes)))
    /\ ri' = ri + 1
    /\ UNCHANGED <<nodes, fieldMeters, cellMeters, W, H, rb, out>>
    /\ UNCHANGED geoVars
    /\ UNCHANGED attachVars

\* one decimal obtained by cutting the further digits
Fixed1_Truncating(xc) ==
    IF xc >= 0 THEN 10 * (xc \div 10) ELSE -(10 * ((-xc) \div 10))

\* operator<<(double) after std::fixed << std::setprecision(1): the nearest
\* tenth, a value halfway between two tenths going to the even one (the halves
\* among the positions used, .25 and .75, are exact doubles).
Fixed1(xc) ==
    LET a == IF xc >= 0 THEN xc ELSE -xc
        q == a \div 10
        r == a % 10
        t == IF r < 5 THEN q ELSE IF r > 5 THEN q + 1 ELSE IF q % 2 = 0 THEN q ELSE q + 1
    IN IF xc >= 0 THEN 10 * t ELSE -(10 * t)

\* operator<<(double) in the stream's default format: six significant digits.
RECURSIVE General6(_)
General6(xc) ==
    LET a == IF xc >= 0 THEN xc ELSE -xc
        q == a \div 10
        r == a % 10
        t == IF r < 5 THEN q ELSE IF r > 5 THEN q + 1 ELSE IF q % 2 = 0 THEN q ELSE q + 1
    IN IF a < 1000000 THEN xc
       ELSE IF xc >= 0 THEN 10 * General6(t) ELSE -(10 * General6(t))

\* std::fixed and the precision stay set on the stream once a node line is written.
HasNodeLine == \E k \in 1..Len(nodes) : nodes[k].mm

Printed(xc) == IF HasNodeLine THEN Fixed1(xc) ELSE General6(xc)

\* the name column of the Nodes listing
NodeName(i, n) ==
    IF i = 0 THEN [who |-> "Sayed", n |-> 0]
    ELSE IF i + 1 = n THEN [who |-> "Sadia", n |-> 0]
    ELSE [who |-> "UE", n |-> i]

\* the lines of the Nodes listing from node i on
RECURSIVE NodeLines(_)
NodeLines(i) ==
    IF i >= Len(nodes) THEN <<>>
    ELSE IF ~nodes[i + 1].mm THEN NodeLines(i + 1)
    ELSE <<[name |-> NodeName(i, Len(nodes)), node |-> i,
            x |-> Fixed1(PosCm(nodes[i + 1]).x),
            y |-> Fixed1(PosCm(nodes[i + 1]).y)]>> \o NodeLines(i + 1)

\* What the stream receives: the header, the ruler, the rows and the two listings.
FileText ==
    [dims |-> <<W, H>>,
     cell |-> cellMeters,
     sadia |-> Len(nodes) - 1,  \* a uint32_t: -1 stands for 2^32 - 1
     ruler |-> [gx \in 0..(W - 1) |->
                  IF gx % 5 = 0
                  THEN <<((gx * StaticCastInt(cellMeters.num, cellMeters.den))
                             \div 10) % 100>>
                  ELSE <<>>],
     rows |-> [r \in 1..H |->
                  [yMeters |-> StaticCastInt((H - 1 - (r - 1)) * cellMeters.num,
                                             cellMeters.den),
                   line |-> grid[r]]],
     nodeLines |-> NodeLines(0),
     buildingLines |-> [b \in 1..Len(boundary) |->
                           [b |-> b - 1,
                            xMin |-> Printed(100 * boundary[b].xMin),
                            xMax |-> Printed(100 * boundary[b].xMax),
                            yMin |-> Printed(100 * boundary[b].yMin),
                            yMax |-> Printed(100 * boundary[b].yMax)]]]

\* The file opened for appending: an earlier text stays in front of the new one.
WriteFile_Appends ==
    /\ rpc = "render"
    /\ rb = Len(boundary)
    /\ ri = Len(nodes)
    /\ out' = IF out = <<>> THEN FileText ELSE [before |-> out, added |-> FileText]
    /\ rpc' = "written"
    /\ phase' = "setup"
    /\ writes' = {}
    /\ UNCHANGED <<nodes, fieldMeters, cellMeters, W, H, grid, rb, ri>>
    /\ UNCHANGED <<boundary, requested, meshPos, events, fired, calls, now,
                   cur, desired, bx, guard>>
    /\ UNCHANGED attachVars

\* The loops are over: std::ofstream opens the file, which empties it, the text
\* goes to it, and the function returns.
WriteFile ==
    /\ rpc = "render"
    /\ rb = Len(boundary)
    /\ ri = Len(nodes)
    /\ out' = FileText
    /\ rpc' = "written"
    /\ phase' = "setup"
    /\ writes' = {}
    /\ UNCHANGED <<nodes, fieldMeters, cellMeters, W, H, grid, rb, ri>>
    /\ UNCHANGED <<boundary, requested, meshPos, events, fired, calls, now,
                   cur, desired, bx, guard>>
    /\ UNCHANGED attachVars

\* The scenarios' call: the 400 m field with the default cell of 10 m.
ProgramProfile == [field |-> 400, cell |-> [num |-> 10, den |-> 1]]

\* Small fields: multiples of the cell, a field that is not one, the empty
\* field, and cells of 2.5 m and 0.5 m.
SmallProfiles ==
    { [field |-> 40, cell |-> [num |-> 10, den |-> 1]],
      [field |-> 25, cell |-> [num |-> 10, den |-> 1]],
      [field |-> 0, cell |-> [num |-> 10, den |-> 1]],
      [field |-> 10, cell |-> [num |-> 5, den |-> 2]],
      [field |-> 2, cell |-> [num |-> 1, den |-> 2]] }

\* Buildings for the small fields: inside, across the edge, outside on either side.
RenderBoxes ==
    { Box(10, 25, 10, 20, 0, 10), Box(-5, 15, 15, 45, 0, 10),
      Box(-30, -5, 0, 10, 0, 10), Box(41, 70, 0, 40, 0, 10) }

\* Node placements: node i at off + i * step metres plus frac hundredths, the
\* nodes of noMm without a mobility model.
NodePatterns ==
    { [off |-> Vector(0, 0), step |-> Vector(10, 10), frac |-> Vector(0, 0), noMm |-> {}],
      [off |-> Vector(15, 15), step |-> Vector(0, 0), frac |-> Vector(0, 0), noMm |-> {}],
      [off |-> Vector(-5, 5), step |-> Vector(5, 0), frac |-> Vector(0, 0), noMm |-> {}],
      [off |-> Vector(20, 10), step |-> Vector(-2, 3), frac |-> Vector(0, 0), noMm |-> {1}],
      [off |-> Vector(12, 7), step |-> Vector(3, -2), frac |-> Vector(25, 78), noMm |-> {}] }

NodesOf(pat, n) ==
    [k \in 1..n |-> [mm |-> (k - 1) \notin pat.noMm,
                     p |-> Vector(pat.off.x + (k - 1) * pat.step.x,
                                  pat.off.y + (k - 1) * pat.step.y),
                     c |-> pat.frac]]

InitRender ==
    /\ \/ /\ boundary \in SeqsUpTo(RenderBoxes, 0, MaxBuildings)
          /\ \E pr \in SmallProfiles : fieldMeters = pr.field /\ cellMeters = pr.cell
       \/ /\ boundary = InitialBoundaries
          /\ fieldMeters = ProgramProfile.field
          /\ cellMeters = ProgramProfile.cell
    /\ requested = boundary
    /\ meshPos = <<>>
    /\ events = <<>>
    /\ fired = <<>>
    /\ calls = <<>>
    /\ now = 0
    /\ phase = "setup"
    /\ cur = 0
    /\ desired = NoVector
    /\ bx = NoBox
    /\ guard = 0
    /\ AttachIdle
    /\ \E pat \in NodePatterns, n \in 0..MaxNodes : nodes = NodesOf(pat, n)
    /\ W = 0
    /\ H = 0
    /\ grid = <<>>
    /\ rb = 0
    /\ ri = 0
    /\ rpc = "idle"
    /\ writes = {}
    /\ out = <<>>

NextRender ==
    \/ WriteAsciiPositionGrid
    \/ MarkBuilding
    \/ OverlayNode
    \/ WriteFile

SpecRender == InitRender /\ [][NextRender]_vars

\* The caller calls WriteAsciiPositionGrid once more with the same arguments:
\* W, H and grid of the call that returned are gone, the file is still there.
CallAgain ==
    /\ rpc = "written"
    /\ rpc' = "idle"
    /\ UNCHANGED <<nodes, fieldMeters, cellMeters, W, H, grid, rb, ri, writes, out>>
    /\ UNCHANGED geoVars
    /\ UNCHANGED attachVars

NextTwice ==
    \/ WriteAsciiPositionGrid
    \/ MarkBuilding
    \/ OverlayNode
    \/ WriteFile
    \/ CallAgain

SpecTwice == InitRender /\ [][NextTwice]_vars

(***************************************************************************)
(* The position grid of the mesh backhaul scenario: WriteAsciiPositionGrid *)
(* (meshNodes, staNodes, backhaulNodes, sayedSadiaNodes, buildings,        *)
(* fieldMeters, cellMeters).  nodes holds the four containers in the order *)
(* of the overlay loops, each node with its container (type), its index in *)
(* the container (i) and its node id; rpc is "idleB", "renderB", "writtenB".*)
(***************************************************************************)
\* 'B', 'Y', 'A', '?'
CharB == 66
CharY == 89
CharUpA == 65
CharQ == 63

nMeshHops == 4
nStaPerMesh == 2
nTotalStas == nMeshHops * nStaPerMesh

\* auto nodeChar = [&](char type, uint32_t i) -> char
nodeCharOf(type, i) ==
    IF type = "B" THEN CharB
    ELSE IF type = "M" THEN Char0 + i
    ELSE IF type = "S" THEN CharUpA + i
    ELSE IF type = "Y" THEN CharY
    ELSE IF type = "D" THEN CharD
    ELSE CharQ

\* the char one of the four overlay loops assigns for its node
GlyphOf(nd) ==
    IF nd.type = "SS" THEN (IF nd.i = 0 THEN CharY ELSE CharD)
    ELSE nodeCharOf(nd.type, nd.i)

\* The call: W, H and the grid filled with '.'.
WriteAsciiPositionGridB ==
    /\ rpc = "idleB"
    /\ phase = "setup"
    /\ W' = GridWidth(fieldMeters, cellMeters)
    /\ H' = W'
    /\ grid' = [r \in 1..H' |-> [c \in 1..W' |-> Free]]
    /\ rb' = 0
    /\ ri' = 0
    /\ rpc' = "renderB"
    /\ phase' = "render"
    /\ writes' = {}
    /\ UNCHANGED <<nodes, fieldMeters, cellMeters, out>>
    /\ UNCHANGED <<boundary, requested, meshPos, events, fired, calls, now,
                   cur, desired, bx, guard>>
    /\ UNCHANGED attachVars

\* One iteration of the buildings loop.
MarkBuildingB ==
    /\ rpc = "renderB"
    /\ rb < Len(boundary)
    /\ LET rg == CellRange(boundary[rb + 1], cellMeters, W, H)
       IN AssignCells({<<RowOf(gy, H), gx>> : gy \in rg.y0..rg.y1, gx \in rg.x0..rg.x1},
                      Hash)
    /\ rb' = rb + 1
    /\ UNCHANGED <<nodes, fieldMeters, cellMeters, W, H, ri, out>>
    /\ UNCHANGED geoVars
    /\ UNCHANGED attachVars

\* The four overlay loops in the order STA, mesh, backhaul, Sayed and Sadia.
OverlayTyped_StaFirst ==
    /\ rpc = "renderB"
    /\ rb = Len(boundary)
    /\ ri < Len(nodes)
    /\ LET rank(t) == IF t = "S" THEN 1 ELSE IF t = "M" THEN 2 ELSE IF t = "B" THEN 3 ELSE 4
           before(k) == Cardinality({j \in 1..Len(nodes) :
                            \/ rank(nodes[j].type) < rank(nodes[k].type)
                            \/ rank(nodes[j].type) = rank(nodes[k].type) /\ j < k})
           nd == nodes[CHOOSE k \in 1..Len(nodes) : before(k) = ri]
           gx == CellRound(PosCm(nd).x, Centi(cellMeters))
           gy == CellRound(PosCm(nd).y, Centi(cellMeters))
       IN IF ~nd.mm \/ Skipped(gx, gy, W, H)
          THEN grid' = grid /\ writes' = {} /\ rpc' = rpc
          ELSE AssignCells({<<RowOf(gy, H), gx>>}, GlyphOf(nd))
    /\ ri' = ri + 1
    /\ UNCHANGED <<nodes, fieldMeters, cellMeters, W, H, rb, out>>
    /\ UNCHANGED geoVars
    /\ UNCHANGED attachVars

\* One iteration of the four overlay loops: backhaul, mesh, STA, Sayed and Sadia.
OverlayTyped ==
    /\ rpc = "renderB"
    /\ rb = Len(boundary)
    /\ ri < Len(nodes)
    /\ LET nd == nodes[ri + 1]
           gx == CellRound(PosCm(nd).x, Centi(cellMeters))
           gy == CellRound(PosCm(nd).y, Centi(cellMeters))
       IN IF ~nd.mm \/ Skipped(gx, gy, W, H)
          THEN grid' = grid /\ writes' = {} /\ rpc' = rpc
          ELSE AssignCells({<<RowOf(gy, H), gx>>}, GlyphOf(nd))
    /\ ri' = ri + 1
    /\ UNCHANGED <<nodes, fieldMeters, cellMeters, W, H, rb, out>>
    /\ UNCHANGED geoVars
    /\ UNCHANGED attachVars

\* the name column of the four Nodes listings
TypedName(nd) ==
    IF nd.type = "B" THEN [who |-> "Backhaul", n |-> nd.i]
    ELSE IF nd.type = "M" THEN [who |-> "Mesh", n |-> nd.i]
    ELSE IF nd.type = "S" THEN [who |-> "STA", n |-> nd.i]
    ELSE IF nd.i = 0 THEN [who |-> "Sayed", n |-> 0]
    ELSE [who |-> "Sadia", n |-> 0]

\* the lines of the four Nodes listings from position k on
RECURSIVE TypedLines(_)
TypedLines(k) ==
    IF k > Len(nodes) THEN <<>>
    ELSE IF ~nodes[k].mm THEN TypedLines(k + 1)
    ELSE <<[name |-> TypedName(nodes[k]), node |-> nodes[k].id,
            x |-> Fixed1(PosCm(nodes[k]).x),
            y |-> Fixed1(PosCm(nodes[k]).y)]>> \o TypedLines(k + 1)

\* "Legend: ... 'B'=Backhaul, '0-9'=Mesh hops, 'A-Z'=STA/UE, 'Y'=Sayed, 'D'=Sadia"
Legend ==
    [backhaul |-> {CharB},
     mesh |-> {Char0 + d : d \in 0..9},
     sta |-> {CharUpA + d : d \in 0..25},
     sayed |-> {CharY},
     sadia |-> {CharD}]

\* a number of the Buildings listing: std::fixed stays set once a node line is written
PrintedB(xc) == IF TypedLines(1) # <<>> THEN Fixed1(xc) ELSE General6(xc)

\* The loops are over: the header with the fixed legend, the ruler, the rows and
\* the listings go to the file, and the function returns.
WriteFileB ==
    /\ rpc = "renderB"
    /\ rb = Len(boundary)
    /\ ri = Len(nodes)
    /\ out' = [dims |-> FileText.dims,
               cell |-> FileText.cell,
               legend |-> Legend,
               ruler |-> FileText.ruler,
               rows |-> FileText.rows,
               nodeLines |-> TypedLines(1),
               buildingLines |-> [b \in 1..Len(boundary) |->
                                     [b |-> b - 1,
                                      xMin |-> PrintedB(100 * boundary[b].xMin),
                                      xMax |-> PrintedB(100 * boundary[b].xMax),
                                      yMin |-> PrintedB(100 * boundary[b].yMin),
                                      yMax |-> PrintedB(100 * boundary[b].yMax)]]]
    /\ rpc' = "writtenB"
    /\ phase' = "setup"
    /\ writes' = {}
    /\ UNCHANGED <<nodes, fieldMeters, cellMeters, W, H, grid, rb, ri>>
    /\ UNCHANGED <<boundary, requested, meshPos, events, fired, calls, now,
                   cur, desired, bx, guard>>
    /\ UNCHANGED attachVars

\* The nodes of one container, ids from id0 on: node i at at[i + 1].
Container(type, at, id0, noMm) ==
    [k \in 1..Len(at) |-> [type |-> type, i |-> k - 1, id |-> id0 + k - 1,
                           mm |-> (k - 1) \notin noMm, p |-> at[k], c |-> NoVector]]

\* The four containers in the order the overlay loops take them; the nodes are
\* created backhaul, mesh, STA, Sayed and Sadia, which sets their ids.
TypedNodes(bAt, mAt, sAt, yAt, noMm) ==
    Container("B", bAt, 0, {})
        \o Container("M", mAt, Len(bAt), {})
        \o Container("S", sAt, Len(bAt) + Len(mAt), noMm)
        \o Container("SS", yAt, Len(bAt) + Len(mAt) + Len(sAt), {})

\* the positions main gives to the mesh hops
MeshAt == <<Vector(50, 50), Vector(150, 100), Vector(250, 150), Vector(350, 200)>>

\* the position main gives to STA i: 35 m right (angle 0) or left (angle pi) of
\* its mesh hop, kept within 10 m of the field's edges; 35 * sin(pi) is below a
\* hundredth of a metre
StaAt ==
    [i \in 1..nTotalStas |->
        LET m == MeshAt[((i - 1) \div nStaPerMesh) + 1]
            dx == IF (i - 1) % nStaPerMesh = 0 THEN 35 ELSE -35
        IN Vector(Max(10, Min(field - 10, m.x + dx)), Max(10, Min(field - 10, m.y)))]

\* the nodes of main
ScenarioNodes ==
    TypedNodes(<<Vector(30, field \div 2)>>, MeshAt, StaAt,
               <<Vector(55, 55), Vector(345, 195)>>, {})

\* Placements for small fields: node i of every container at off + i * step.
TypedPatterns ==
    { [off |-> Vector(15, 15), step |-> Vector(0, 0), noMm |-> {}],
      [off |-> Vector(0, 30), step |-> Vector(10, -10), noMm |-> {1}] }

PatternAt(pat, n) ==
    [k \in 1..n |-> Vector(pat.off.x + (k - 1) * pat.step.x, pat.off.y + (k - 1) * pat.step.y)]

InitBackhaul ==
    /\ \/ /\ boundary = InitialBoundaries
          /\ fieldMeters = field
          /\ cellMeters = [num |-> 10, den |-> 1]
          /\ nodes = ScenarioNodes
       \/ /\ boundary \in SeqsUpTo(RenderBoxes, 0, 1)
          /\ fieldMeters = 40
          /\ cellMeters = [num |-> 10, den |-> 1]
          /\ \E pat \in TypedPatterns, nB \in 0..1, nM \in 0..nMeshHops,
                nS \in 0..nTotalStas, nY \in 0..2 :
                nodes = TypedNodes(PatternAt(pat, nB), PatternAt(pat, nM),
                                   PatternAt(pat, nS), PatternAt(pat, nY), pat.noMm)
    /\ requested = boundary
    /\ meshPos = <<>>
    /\ events = <<>>
    /\ fired = <<>>
    /\ calls = <<>>
    /\ now = 0
    /\ phase = "setup"
    /\ cur = 0
    /\ desired = NoVector
    /\ bx = NoBox
    /\ guard = 0
    /\ AttachIdle
    /\ W = 0
    /\ H = 0
    /\ grid = <<>>
    /\ rb = 0
    /\ ri = 0
    /\ rpc = "idleB"
    /\ writes = {}
    /\ out = <<>>

NextBackhaul ==
    \/ WriteAsciiPositionGridB
    \/ MarkBuildingB
    \/ OverlayTyped
    \/ WriteFileB

SpecBackhaul == InitBackhaul /\ [][NextBackhaul]_vars

\* Either scenario's WriteAsciiPositionGrid.
SpecGrids == (InitRender \/ InitBackhaul) /\ [][NextRender \/ NextBackhaul]_vars

(***************************************************************************)
(* A whole scenario: main registers relocations, writes the position grid  *)
(* and attaches the UEs, in any order, then runs the event loop.           *)
(***************************************************************************)
\* Simulator::Run() is the last call: the grid is written, the UEs attached.
RunAfterSetup ==
    /\ rpc = "written"
    /\ nextUe = Len(uePos)
    /\ StopAndRun

InitFrame ==
    /\ boundary = InitialBoundaries
    /\ requested = InitialBoundaries
    /\ meshPos = <<Vector(50, 50)>>
    /\ events = <<>>
    /\ fired = <<>>
    /\ calls = <<>>
    /\ now = 0
    /\ phase = "setup"
    /\ cur = 0
    /\ desired = NoVector
    /\ bx = NoBox
    /\ guard = 0
    /\ uePos = <<Vector(100, 0)>>
    /\ enbPos = <<Vector(100, 200), Vector(300, 200)>>
    /\ nextUe = 0
    /\ attached = <<>>
    /\ outcome = "ok"
    /\ nodes = <<[mm |-> TRUE, p |-> Vector(0, 0), c |-> NoVector],
                 [mm |-> TRUE, p |-> Vector(field, field), c |-> NoVector]>>
    /\ fieldMeters = field
    /\ cellMeters = [num |-> 100, den |-> 1]
    /\ W = 0
    /\ H = 0
    /\ grid = <<>>
    /\ rb = 0
    /\ ri = 0
    /\ rpc = "idle"
    /\ writes = {}
    /\ out = <<>>

NextFrame ==
    \/ ScheduleMoveAvoidingMesh
    \/ ScheduleUpdateBuildingPosition
    \/ WriteAsciiPositionGrid
    \/ MarkBuilding
    \/ OverlayNode
    \/ WriteFile
    \/ AttachUe
    \/ RunAfterSetup
    \/ FireUpdateBuildingPosition
    \/ FireMoveAvoidingMesh
    \/ LoopShift
    \/ LoopExitSetBoundaries
    \/ StopFires

SpecFrame == InitFrame /\ [][NextFrame]_vars

\* The relocation scenario with the event loop's progress: once Run has
\* been called the simulator keeps executing the running callback and the queue.
FairSpec == Spec /\ WF_vars(Next)

(***************************************************************************)
(* Properties.                                                             *)
(***************************************************************************)
EnbIdx == 0..(Len(enbPos) - 1)

\* C1: with at least one eNB, every Attach made so far is for the UEs in index
\* order, one Attach per UE, to an in-range eNB that is at least as near (squared
\* 2D distance) as every other eNB and has the lowest index among the nearest.
C1_NearestLowestIndex ==
    enbPos # <<>> =>
        /\ outcome = "ok"
        /\ Len(attached) = nextUe
        /\ nextUe <= Len(uePos)
        /\ \A k \in 1..Len(attached) :
              LET a == attached[k]
                  p == uePos[a.ue + 1]
              IN /\ a.ue = k - 1
                 /\ a.valid
                 /\ a.enb \in EnbIdx
                 /\ \A e \in EnbIdx :
                       /\ Dist2(p, enbPos[a.enb + 1]) <= Dist2(p, enbPos[e + 1])
                       /\ Dist2(p, enbPos[a.enb + 1]) = Dist2(p, enbPos[e + 1])
                            => a.enb <= e

\* Every UE is attached, one of them to the first of two equally near eNBs that
\* follow a farther one.
C1_Witness ==
    /\ Len(enbPos) = 3
    /\ Len(uePos) = 2
    /\ nextUe = Len(uePos)
    /\ \E k \in 1..Len(attached) :
          LET p == uePos[attached[k].ue + 1]
          IN /\ attached[k].enb = 1
             /\ Dist2(p, enbPos[2]) = Dist2(p, enbPos[3])
             /\ Dist2(p, enbPos[2]) < Dist2(p, enbPos[1])

\* C2: with no eNB the attach loop reports InvalidInput and makes no Attach.
C2_EmptyReported ==
    enbPos = <<>> =>
        /\ attached = <<>>
        /\ outcome \in {"ok", "InvalidInput"}
        /\ nextUe > 0 => outcome = "InvalidInput"

Inverted(box) == box.xMin > box.xMax \/ box.yMin > box.yMax

\* C4: a Box with xMin > xMax or yMin > yMax given at creation is rejected with
\* InvalidGeometry and is not stored as a boundary.
C4_InvertedRejected ==
    \A k \in 1..Len(requested) :
        Inverted(requested[k]) =>
            /\ outcome = "InvalidGeometry"
            /\ \A b \in DOMAIN boundary : boundary[b] # requested[k]

AnchorIn(box) ==
    \E k \in 1..Len(meshPos) :
        /\ box.xMin <= meshPos[k].x /\ meshPos[k].x <= box.xMax
        /\ box.yMin <= meshPos[k].y /\ meshPos[k].y <= box.yMax

AnchorStrictlyIn(box) ==
    \E k \in 1..Len(meshPos) :
        /\ box.xMin < meshPos[k].x /\ meshPos[k].x < box.xMax
        /\ box.yMin < meshPos[k].y /\ meshPos[k].y < box.yMax

Shifting == cur # 0 /\ cur' = cur
Returning == cur # 0 /\ cur' = 0

\* C5: the avoidance loop makes at most 50 shifts, each counted by guard, and a
\* callback that has started can always shift or return; when the loop ends,
\* because no anchor overlaps or because 50 shifts were made, the callback calls
\* SetBoundaries once, with the last candidate, and returns.
C5_Terminates ==
    /\ [](/\ guard \in 0..50
          /\ cur # 0 => ENABLED (LoopShift \/ LoopExitSetBoundaries))
    /\ [][ /\ Shifting => guard' = guard + 1
           /\ Returning => /\ Len(calls'[cur]) = 1
                           /\ calls'[cur][1] = [box |-> bx, guard |-> guard]
                           /\ boundary'[events[cur].b] = bx
                           /\ ~AnchorIn(bx) \/ guard = 50
           /\ cur # 0 => cur' \in {cur, 0} ]_vars

\* C5, as progress of the event loop: a callback that has started returns.
C5_Returns == (cur # 0) ~> (cur = 0)

\* A callback returned after 50 shifts, its rectangle still over an anchor, and
\* another returned after fewer.
C5_Witness ==
    \E i, j \in 1..Len(events) :
        /\ calls[i] # <<>> /\ calls[i][1].guard = 50 /\ AnchorIn(calls[i][1].box)
        /\ calls[j] # <<>> /\ calls[j][1].guard \in 1..49

\* C6 as stated: the overlap test is true exactly when an anchor lies strictly
\* inside the candidate.
C6_StrictOverlap ==
    cur # 0 => (overlapsMesh(bx) <=> AnchorStrictlyIn(bx))

\* C6 amended: the callback shifts only when an anchor lies in the candidate,
\* edges included, and with fewer than 50 shifts made it shifts whenever one
\* does; an anchor on an edge of the candidate is an overlap.
C6_InclusiveOverlap ==
    [][ /\ Shifting => AnchorIn(bx)
        /\ Returning /\ guard < 50 => ~AnchorIn(bx)
        /\ cur # 0 /\ AnchorIn(bx) /\ guard < 50 => Shifting /\ guard' = guard + 1
      ]_vars

\* The candidate has been shifted and an anchor lies on its edge, not strictly
\* inside: the loop is about to shift again.
C6_Witness ==
    /\ cur # 0
    /\ guard \in 1..49
    /\ AnchorIn(bx)
    /\ ~AnchorStrictlyIn(bx)

\* C7 as stated: every shift moves xMin rightward by exactly 20.
C7_ShiftExactly20 ==
    [][Shifting => bx'.xMin = bx.xMin + 20]_vars

\* C7 amended: every shift sets xMin to min(field - w - 1, xMin + 20), which is
\* xMin + 20 when that is within the clamp, keeps the width, and is made only
\* when the current candidate overlaps an anchor.
C7_ShiftClamped ==
    [][Shifting =>
         LET w == events[cur].w
         IN /\ bx'.xMin = Min(400 - w - 1, bx.xMin + 20)
            /\ bx.xMin + 20 <= 400 - w - 1 => bx'.xMin = bx.xMin + 20
            /\ bx'.xMax = bx'.xMin + w
            /\ AnchorIn(bx)
      ]_vars

\* Shifts of 20, of less than 20 and leftward: the first shift of a candidate
\* moved it by 9 or by -6.
C7_Witness ==
    /\ cur # 0
    /\ guard = 1
    /\ bx.xMin - events[cur].desired.x \in {9, -6}

IsScenario(e) ==
    e.avoid /\ e.desired = Vector(40, 40) /\ e.w = 60 /\ e.h = 20

\* C8: with the single anchor (50, 50), the relocation to (40, 40) of width 60
\* and height 20 starts from (40, 100, 40, 60), which overlaps; after one shift
\* its candidate is (60, 120, 40, 60), which does not; it sets that boundary
\* after exactly 1 iteration.
C8_Scenario ==
    meshPos = <<Vector(50, 50)>> =>
        /\ cur # 0 /\ IsScenario(events[cur]) =>
              /\ guard \in {0, 1}
              /\ guard = 0 => bx = Box(40, 100, 40, 60, 0, 10) /\ AnchorIn(bx)
              /\ guard = 1 => bx = Box(60, 120, 40, 60, 0, 10) /\ ~AnchorIn(bx)
        /\ \A i \in 1..Len(events) :
              IsScenario(events[i]) /\ calls[i] # <<>> =>
                  calls[i] = << [box |-> Box(60, 120, 40, 60, 0, 10), guard |-> 1] >>
        /\ \A i \in 1..Len(events) :
              IsScenario(events[i]) /\ fired[i] # <<>> /\ cur = 0
              /\ (\A j \in 1..Len(events) :
                     j # i /\ events[j].b = events[i].b => fired[j] = <<>>)
              => boundary[events[i].b] = Box(60, 120, 40, 60, 0, 10)

\* The scenario's relocation has run and its building has that boundary.
C8_Witness ==
    /\ meshPos = <<Vector(50, 50)>>
    /\ \E i \in 1..Len(events) :
          /\ IsScenario(events[i])
          /\ calls[i] # <<>>
          /\ boundary[events[i].b] = Box(60, 120, 40, 60, 0, 10)

\* C9: every candidate a shift has produced has xMin <= field - w - 1 and so
\* xMax <= field, and so has the rectangle installed after at least one shift.
C9_ShiftedWithinField ==
    /\ cur # 0 /\ guard >= 1 =>
          /\ bx.xMin <= 400 - events[cur].w - 1
          /\ bx.xMax <= 400
    /\ \A i \in 1..Len(events) : \A k \in 1..Len(calls[i]) :
          calls[i][k].guard >= 1 =>
              /\ calls[i][k].box.xMin <= 400 - events[i].w - 1
              /\ calls[i][k].box.xMax <= 400

\* A shift was cut short by the clamp.
C9_Witness ==
    /\ cur # 0
    /\ guard = 1
    /\ events[cur].desired.x + 20 > 400 - events[cur].w - 1
    /\ bx.xMin = 400 - events[cur].w - 1

\* C10: a relocation is invoked at most once and only at its own time, sets a
\* boundary at most once and only when invoked; when the run has ended the
\* relocations invoked are those whose time is not after the stop time, and
\* each of them has set its boundary once.
C10_FiresOnceOrNever ==
    \A i \in 1..Len(events) :
        /\ Len(fired[i]) <= 1
        /\ \A k \in 1..Len(fired[i]) : fired[i][k] = events[i].at
        /\ Len(calls[i]) <= Len(fired[i])
        /\ fired[i] # <<>> => now >= events[i].at /\ phase # "setup"
        /\ phase = "done" =>
              /\ fired[i] # <<>> <=> events[i].at <= 5
              /\ Len(calls[i]) = Len(fired[i])

\* The run has ended: a relocation before the stop time was invoked, one after
\* it was not.
C10_Witness ==
    /\ phase = "done"
    /\ \E i, j \in 1..Len(events) :
          /\ events[i].at < 5 /\ fired[i] = <<events[i].at>> /\ Len(calls[i]) = 1
          /\ events[j].at > 5 /\ fired[j] = <<>> /\ calls[j] = <<>>

\* C11: a callback that has started runs to its return before any other
\* relocation is invoked; while it runs no boundary changes, so no candidate of
\* the loop that is shifted again is ever a boundary; at its return the boundary
\* of its obstacle, and no other, goes from the value it had when the callback
\* started to the last candidate, on which the loop condition is false.
C11_Atomic ==
    [][ /\ cur # 0 => /\ cur' \in {cur, 0}
                      /\ fired' = fired
                      /\ events' = events
        /\ (cur = 0 /\ cur' # 0) => boundary' = boundary
        /\ Shifting => boundary' = boundary
        /\ Returning => /\ ~LoopCond(bx, guard)
                        /\ boundary' = [boundary EXCEPT ![events[cur].b] = bx] ]_vars

\* A callback is in its loop after a shift: the boundary of its obstacle is
\* neither the first candidate nor the current one.
C11_Witness ==
    /\ cur # 0
    /\ guard >= 1
    /\ boundary[events[cur].b] # bx
    /\ boundary[events[cur].b] # InitialCandidate(events[cur].desired, events[cur].w, events[cur].h)
    /\ \E j \in Pending : events[j].b = events[cur].b /\ events[j].at <= 5

\* The x at which the avoidance loop stops, from the request, the anchors and
\* the field size alone.
RECURSIVE AvoidedX(_, _, _, _, _, _)
AvoidedX(mesh, x, y, w, h, g) ==
    IF /\ \E k \in 1..Len(mesh) : /\ x <= mesh[k].x /\ mesh[k].x <= x + w
                                  /\ y <= mesh[k].y /\ mesh[k].y <= y + h
       /\ g < 50
    THEN AvoidedX(mesh, Min(400 - w - 1, x + 20), y, w, h, g + 1)
    ELSE x

\* AvoidedX for every anchor layout and every request of the model.
AvoidedTable ==
    [mesh \in MeshLayouts |->
        [r \in AvoidRequests |-> AvoidedX(mesh, r.desired.x, r.desired.y, r.w, r.h, 0)]]

Installed(e) ==
    LET x == IF e.avoid
             THEN AvoidedTable[meshPos][[desired |-> e.desired, w |-> e.w, h |-> e.h]]
             ELSE e.desired.x
    IN Box(x, x + e.w, e.desired.y, e.desired.y + e.h, 0, 10)

SameInputs(d, e) ==
    d.desired = e.desired /\ d.w = e.w /\ d.h = e.h /\ d.avoid = e.avoid

Installs(i) == calls[i] # <<>>

\* C12: the rectangle a relocation installs is the value of a function of its
\* desired position, width, height, the anchor positions and the field size;
\* two relocations with equal inputs install equal rectangles whatever their
\* obstacles' boundaries were, and outside a callback every boundary is the
\* initial rectangle or, whole, a rectangle installed on that obstacle.
C12_Deterministic ==
    /\ \A i \in 1..Len(events) :
          Installs(i) => calls[i][1].box = Installed(events[i])
    /\ \A i, j \in 1..Len(events) :
          (Installs(i) /\ Installs(j) /\ SameInputs(events[i], events[j]))
              => calls[i][1].box = calls[j][1].box
    /\ \A b \in DOMAIN boundary :
          \/ boundary[b] = InitialBoundaries[b]
          \/ \E i \in 1..Len(events) :
                Installs(i) /\ events[i].b = b /\ boundary[b] = calls[i][1].box

\* Two relocations with equal inputs have been installed on obstacles whose
\* boundaries differed, after at least one shift.
C12_Witness ==
    \E i, j \in 1..Len(events) :
        /\ i # j
        /\ SameInputs(events[i], events[j])
        /\ events[i].b # events[j].b
        /\ InitialBoundaries[events[i].b] # InitialBoundaries[events[j].b]
        /\ Installs(i) /\ Installs(j)
        /\ calls[i][1].guard >= 1

\* The step is made inside WriteAsciiPositionGrid, or is an Attach.
RenderStep == rpc' # rpc \/ rb' # rb \/ ri' # ri \/ grid' # grid \/ out' # out
AttachStep == nextUe' # nextUe \/ attached' # attached

\* The step is the SetBoundaries call of relocation i.
SetsBoundary(i) ==
    /\ Len(calls'[i]) = Len(calls[i]) + 1
    /\ \A j \in 1..Len(calls) : j # i => calls'[j] = calls[j]
    /\ boundary' = [boundary EXCEPT ![events[i].b] = calls'[i][Len(calls'[i])].box]

\* C13: no step changes an anchor position or a node position; writing the
\* position grid and attaching a UE change no boundary; a boundary changes only
\* in the SetBoundaries call of a fired relocation, and that call changes the
\* boundary of the relocation's own obstacle and of no other.
C13_Frame ==
    [][ /\ meshPos' = meshPos /\ enbPos' = enbPos /\ uePos' = uePos /\ nodes' = nodes
        /\ RenderStep => boundary' = boundary
        /\ AttachStep => boundary' = boundary
        /\ DOMAIN boundary' = DOMAIN boundary
        /\ boundary' # boundary =>
              \E i \in 1..Len(events) : fired[i] # <<>> \/ fired'[i] # <<>>
        /\ (boundary' # boundary \/ calls' # calls) =>
              \/ Len(calls') = Len(calls) + 1 /\ boundary' = boundary
              \/ \E i \in 1..Len(events) : Len(events') = Len(events) /\ SetsBoundary(i) ]_vars

\* The grid was written, the UE attached and a relocation has moved its
\* obstacle, all other boundaries being the initial ones.
C13_Witness ==
    /\ rpc = "written"
    /\ Len(attached) = 1
    /\ \E i \in 1..Len(events) :
          /\ Installs(i)
          /\ boundary[events[i].b] # InitialBoundaries[events[i].b]
          /\ \A b \in DOMAIN boundary : b # events[i].b => boundary[b] = InitialBoundaries[b]
    /\ \E b \in 1..Len(out.buildingLines) :
          out.buildingLines[b].xMin # 100 * boundary[b].xMin

\* C14: every obstacle keeps the z-range it was created with, whatever
\* relocations have fired.
C14_ZRangeFixed ==
    \A b \in DOMAIN boundary :
        /\ boundary[b].zMin = InitialBoundaries[b].zMin
        /\ boundary[b].zMax = InitialBoundaries[b].zMax

RenderStarted == rpc # "idle"

\* C15: once the call has set them, W = H = floor(fieldMeters / cellMeters) + 1
\* (the field sizes are >= 0 and the cell sizes > 0), the grid has H rows of W
\* cells, in the file too, and the 400 m field with 10 m cells has W = H = 41.
C15_GridSquare ==
    RenderStarted =>
        /\ W = ((fieldMeters * cellMeters.den) \div cellMeters.num) + 1
        /\ H = W
        /\ Len(grid) = H
        /\ \A r \in 1..H : Len(grid[r]) = W
        /\ (fieldMeters = 400 /\ cellMeters = [num |-> 10, den |-> 1]) => W = 41
        /\ rpc = "written" =>
              /\ out.dims = <<W, W>>
              /\ DOMAIN out.rows = 1..H
              /\ \A r \in 1..H : Len(out.rows[r].line) = W

\* The 400 m field with 10 m cells has been written with 41 rows of 41 cells.
C15_Witness ==
    /\ rpc = "written"
    /\ fieldMeters = 400
    /\ cellMeters = [num |-> 10, den |-> 1]
    /\ Len(out.rows) = 41
    /\ Len(out.rows[1].line) = 41

\* The loop iteration just made was for building rb, or for node ri.
AfterBuilding == rpc = "render" /\ rb >= 1 /\ ri = 0
AfterNode == rpc = "render" /\ ri >= 1

\* An entity with Y cell gy is stored in row H - 1 - gy, and printed row r is
\* grid row r: row 0 the largest Y, row H - 1 the row of Y = 0.
FlippedRows ==
    /\ AfterBuilding =>
          LET rg == CellRange(boundary[rb], cellMeters, W, H)
          IN \A c \in writes : \E gy \in rg.y0..rg.y1 : c[1] = H - 1 - gy
    /\ AfterNode =>
          \A c \in writes : c[1] = H - 1 - CellRound(PosCm(nodes[ri]).y, Centi(cellMeters))
    /\ rpc = "written" => \A r \in 0..(H - 1) : out.rows[r + 1].line = grid[r + 1]

\* C16 as stated: rows are flipped, and printed row r carries the prefix
\* (H - 1 - r) * cellMeters, strictly decreasing from top to bottom.
C16_FlipExactLabels ==
    /\ FlippedRows
    /\ rpc = "written" =>
          /\ \A r \in 0..(H - 1) :
                out.rows[r + 1].yMeters * cellMeters.den = (H - 1 - r) * cellMeters.num
          /\ \A r \in 0..(H - 2) : out.rows[r + 1].yMeters > out.rows[r + 2].yMeters

\* C16, amended: rows are flipped, and printed row r carries the prefix
\* (H - 1 - r) * cellMeters cut to its integer part, which never increases from
\* top to bottom; for a cell size that is a whole number of metres the prefix is
\* (H - 1 - r) * cellMeters itself and strictly decreases.
C16_FlipTruncatedLabels ==
    /\ FlippedRows
    /\ rpc = "written" =>
          /\ \A r \in 0..(H - 1) :
                LET y == out.rows[r + 1].yMeters
                IN /\ y * cellMeters.den <= (H - 1 - r) * cellMeters.num
                   /\ (H - 1 - r) * cellMeters.num < (y + 1) * cellMeters.den
          /\ \A r \in 0..(H - 2) : out.rows[r + 1].yMeters >= out.rows[r + 2].yMeters
          /\ cellMeters.den = 1 =>
                /\ \A r \in 0..(H - 1) :
                      out.rows[r + 1].yMeters = (H - 1 - r) * cellMeters.num
                /\ \A r \in 0..(H - 2) :
                      out.rows[r + 1].yMeters > out.rows[r + 2].yMeters

\* A grid with 10 m cells has been written in which a building and a node with
\* Y cell 1 or more are stored, the top row carrying 40 and the bottom row 0.
C16_Witness ==
    /\ rpc = "written"
    /\ fieldMeters = 40
    /\ out.rows[1].yMeters = 40
    /\ out.rows[5].yMeters = 0
    /\ \E k \in 1..Len(nodes) :
          /\ nodes[k].mm
          /\ PosCm(nodes[k]) = Vector(1000, 1000)
          /\ out.rows[4].line[2] = nodeChar(k - 1, Len(nodes))
    /\ \E b \in 1..Len(boundary) :
          /\ boundary[b] = Box(10, 25, 10, 20, 0, 10)
          /\ out.rows[3].line[3] = Hash /\ out.rows[5].line[3] = Free

\* floor(x / cellMeters)
FloorCell(x) == (x * cellMeters.den) \div cellMeters.num

\* Building b covers cell (gx, gy) in the sense of C17.
Covers(b, gx, gy) ==
    /\ Max(0, FloorCell(boundary[b].xMin)) <= gx
    /\ gx <= Min(W - 1, FloorCell(boundary[b].xMax))
    /\ Max(0, FloorCell(boundary[b].yMin)) <= gy
    /\ gy <= Min(H - 1, FloorCell(boundary[b].yMax))

\* the char of cell (gx, gy)
CellChar(gx, gy) == grid[(H - 1 - gy) + 1][gx + 1]

\* C17: while the buildings are being marked and until the first node is
\* overlaid, a cell (gx, gy) holds '#' exactly when one of the buildings marked so
\* far covers it, and '.' otherwise; before the overlay that is every building.
C17_ObstacleCells ==
    (rpc = "render" /\ ri = 0) =>
        \A gx \in 0..(W - 1), gy \in 0..(H - 1) :
            CellChar(gx, gy) = IF \E b \in 1..rb : Covers(b, gx, gy) THEN Hash ELSE Free

\* All buildings are marked and no node is overlaid: two buildings overlap on
\* cell (1, 1), cell (2, 2) has one and cell (0, 0) none.
C17_Witness ==
    /\ rpc = "render" /\ ri = 0 /\ rb = Len(boundary)
    /\ fieldMeters = 40
    /\ Len(nodes) >= 1
    /\ \E a, b \in 1..rb : a # b /\ Covers(a, 1, 1) /\ Covers(b, 1, 1)
    /\ CellChar(1, 1) = Hash /\ CellChar(2, 2) = Hash /\ CellChar(0, 0) = Free

\* the cell node k (1-based) rounds to
NodeGx(k) == CellRound(PosCm(nodes[k]).x, Centi(cellMeters))
NodeGy(k) == CellRound(PosCm(nodes[k]).y, Centi(cellMeters))

\* Node k has a position and its rounded cell is in the grid.
InBounds(k) ==
    /\ nodes[k].mm
    /\ NodeGx(k) \in 0..(W - 1)
    /\ NodeGy(k) \in 0..(H - 1)

SameCell(j, k) == NodeGx(j) = NodeGx(k) /\ NodeGy(j) = NodeGy(k)

NodeGlyphs == {CharS, CharD} \cup {Char0 + d : d \in 0..9} \cup {CharA + d : d \in 0..25}

\* The overlay starts only when every building is marked.
OverlayAfterBuildings == (rpc # "idle" /\ ri >= 1) => rb = Len(boundary)

\* C18 as stated: nodes are overlaid after all buildings, the cell of every
\* in-bounds node shows a node char and not '#' in the final grid, and with 10
\* nodes the first node's cell shows 'S' and the last node's cell shows 'D'.
C18_SourceAlwaysVisible ==
    /\ OverlayAfterBuildings
    /\ rpc = "written" =>
          /\ \A k \in 1..Len(nodes) :
                InBounds(k) => /\ CellChar(NodeGx(k), NodeGy(k)) \in NodeGlyphs
                               /\ CellChar(NodeGx(k), NodeGy(k)) # Hash
          /\ Len(nodes) = 10 =>
                /\ InBounds(1) => CellChar(NodeGx(1), NodeGy(1)) = CharS
                /\ InBounds(10) => CellChar(NodeGx(10), NodeGy(10)) = CharD

\* C18, amended: nodes are overlaid after all buildings, the cell of every
\* in-bounds node shows a node char and not '#' in the final grid, the char of
\* the last in-bounds node that rounds to that cell; with 10 nodes the last
\* node's cell shows 'D', and the first node's cell shows 'S' when no later
\* in-bounds node rounds to the same cell.
C18_NodesOverBuildings ==
    /\ OverlayAfterBuildings
    /\ rpc = "written" =>
          /\ \A k \in 1..Len(nodes) :
                InBounds(k) =>
                    /\ CellChar(NodeGx(k), NodeGy(k)) \in NodeGlyphs
                    /\ CellChar(NodeGx(k), NodeGy(k)) # Hash
                    /\ \E j \in k..Len(nodes) :
                          /\ InBounds(j) /\ SameCell(j, k)
                          /\ \A l \in (j + 1)..Len(nodes) : ~(InBounds(l) /\ SameCell(l, k))
                          /\ CellChar(NodeGx(k), NodeGy(k)) =
                                IF j = 1 THEN CharS
                                ELSE IF j = Len(nodes) THEN CharD
                                ELSE IF j - 1 < 10 THEN Char0 + (j - 1)
                                ELSE CharA + (j - 11)
          /\ Len(nodes) = 10 =>
                /\ InBounds(10) => CellChar(NodeGx(10), NodeGy(10)) = CharD
                /\ (InBounds(1) /\ \A l \in 2..10 : ~(InBounds(l) /\ SameCell(l, 1)))
                      => CellChar(NodeGx(1), NodeGy(1)) = CharS

\* Ten nodes are written: the first and the last are on cells that buildings
\* cover, and their cells show 'S' and 'D'.
C18_Witness ==
    /\ rpc = "written"
    /\ Len(nodes) = 10
    /\ InBounds(1) /\ InBounds(10)
    /\ \E b \in 1..Len(boundary) : Covers(b, NodeGx(1), NodeGy(1))
    /\ \E b \in 1..Len(boundary) : Covers(b, NodeGx(10), NodeGy(10))
    /\ CellChar(NodeGx(1), NodeGy(1)) = CharS
    /\ CellChar(NodeGx(10), NodeGy(10)) = CharD

\* C19: the char the overlay assigns for the node at index i among N nodes is
\* 'S' for i = 0 (also when N = 1), otherwise 'D' for i = N - 1, otherwise the
\* digit i for i < 10, otherwise the lowercase letter at offset i - 10.
C19_GlyphPriority ==
    (AfterNode /\ writes # {}) =>
        LET i == ri - 1
            N == Len(nodes)
        IN \A c \in writes :
              /\ c = <<H - 1 - NodeGy(ri), NodeGx(ri)>>
              /\ grid[c[1] + 1][c[2] + 1] =
                    IF i = 0 THEN CharS
                    ELSE IF i = N - 1 THEN CharD
                    ELSE IF i < 10 THEN Char0 + i
                    ELSE CharA + (i - 10)
              /\ i = 0 => grid[c[1] + 1][c[2] + 1] = 83
              /\ (i = 10 /\ N > 11) => grid[c[1] + 1][c[2] + 1] = 97
              /\ (i = 9 /\ N > 10) => grid[c[1] + 1][c[2] + 1] = 57

\* The node at index 10 of 12 has just been overlaid as 'a', the cells of the
\* nodes at indices 0 and 9 showing 'S' and '9'.
C19_Witness ==
    /\ AfterNode
    /\ ri = 11
    /\ Len(nodes) = 12
    /\ writes = {<<H - 1 - NodeGy(11), NodeGx(11)>>}
    /\ CellChar(NodeGx(11), NodeGy(11)) = 97
    /\ InBounds(1) /\ CellChar(NodeGx(1), NodeGy(1)) = 83
    /\ InBounds(10) /\ CellChar(NodeGx(10), NodeGy(10)) = 57

\* The step is an iteration of the buildings loop, or of the overlay loop.
BuildingStep == rpc = "render" /\ rb' = rb + 1
NodeStep == rpc = "render" /\ ri' = ri + 1

\* Building b lies entirely outside the field [0, fieldMeters] x [0, fieldMeters].
OutsideField(b) ==
    \/ boundary[b].xMax < 0 \/ boundary[b].xMin > fieldMeters
    \/ boundary[b].yMax < 0 \/ boundary[b].yMin > fieldMeters

\* No cell of building b's floored x range or y range is a cell of the grid.
OutsideGrid(b) ==
    \/ boundary[b].xMax < 0 \/ FloorCell(boundary[b].xMin) > W - 1
    \/ boundary[b].yMax < 0 \/ FloorCell(boundary[b].yMin) > H - 1

\* Every assignment is to an element of the grid and the function does not
\* abort; a node whose rounded cell is outside the grid leaves the grid as it is.
WritesInGrid ==
    /\ [](rpc # "crash" /\ \A c \in writes : c[1] \in 0..(H - 1) /\ c[2] \in 0..(W - 1))
    /\ [][ (NodeStep /\ ~InBounds(ri + 1))
               => grid' = grid /\ writes' = {} /\ rpc' = "render" ]_vars

\* C20 as stated: no write outside the grid, a node whose rounded cell is
\* outside the grid is skipped and leaves the grid unchanged, and a building
\* entirely outside the field marks no cell.
C20_OutsideFieldUnmarked ==
    /\ WritesInGrid
    /\ [][ (BuildingStep /\ OutsideField(rb + 1)) => grid' = grid /\ writes' = {} ]_vars

\* C20, amended: no write outside the grid, a node whose rounded cell is outside
\* the grid is skipped and leaves the grid unchanged, and a building marks no
\* cell when it is entirely below 0 in x or in y or begins at or beyond
\* W * cellMeters; a building beyond fieldMeters that begins before
\* W * cellMeters is marked in the last column or row.
C20_OutsideGridUnmarked ==
    /\ WritesInGrid
    /\ [][ (BuildingStep /\ OutsideGrid(rb + 1)) => grid' = grid /\ writes' = {} ]_vars
    /\ [][ (BuildingStep /\ ~OutsideGrid(rb + 1)
                         /\ boundary[rb + 1].xMin <= boundary[rb + 1].xMax
                         /\ boundary[rb + 1].yMin <= boundary[rb + 1].yMax)
               => writes' # {} ]_vars

\* A building left of the field has marked nothing and the first node, whose
\* rounded cell is left of the grid, has been skipped: every cell is '.'.
C20_Witness ==
    /\ AfterNode
    /\ ri = 1
    /\ W >= 3
    /\ Len(boundary) = 1 /\ boundary[1].xMax < 0
    /\ nodes[1].mm /\ NodeGx(1) < 0
    /\ writes = {}
    /\ \A gx \in 0..(W - 1), gy \in 0..(H - 1) : CellChar(gx, gy) = Free

(***************************************************************************)
(* The listings written after the grid.                                    *)
(***************************************************************************)
Written == rpc = "written"

\* the role the listing gives to input index i
RoleOf(i) ==
    IF i = 0 THEN "Sayed" ELSE IF i = Len(nodes) - 1 THEN "Sadia" ELSE "UE"

Abs(v) == IF v >= 0 THEN v ELSE -v

\* one entry per obstacle, in input order, each range within half a tenth of
\* the boundary's and equal to it when the boundary is in whole tenths
ObstacleEntries ==
    /\ Len(out.buildingLines) = Len(boundary)
    /\ \A b \in 1..Len(boundary) :
          LET e == out.buildingLines[b]
              near(v, m) == Abs(v - 100 * m) <= 5 /\ ((100 * m) % 10 = 0 => v = 100 * m)
          IN /\ e.b = b - 1
             /\ near(e.xMin, boundary[b].xMin) /\ near(e.xMax, boundary[b].xMax)
             /\ near(e.yMin, boundary[b].yMin) /\ near(e.yMax, boundary[b].yMax)

\* C21 as stated: one entry for every input node, in input order, with its
\* role, its index and its exact coordinates, and one entry for every obstacle
\* with its exact boundary box.
C21_ListingExact ==
    Written =>
        /\ Len(out.nodeLines) = Len(nodes)
        /\ \A k \in 1..Len(out.nodeLines) :
              /\ out.nodeLines[k].node = k - 1
              /\ out.nodeLines[k].name.who = RoleOf(k - 1)
              /\ out.nodeLines[k].x = PosCm(nodes[k]).x
              /\ out.nodeLines[k].y = PosCm(nodes[k]).y
        /\ ObstacleEntries

\* C21, amended: the listing has one entry for every input node that has a
\* mobility model, in input order, with its role, its index and its coordinates
\* rounded to one decimal place, and one entry for every obstacle with the x
\* and y ranges of its boundary box, whether or not the node or the obstacle
\* was painted in the grid.
C21_ListingRounded ==
    Written =>
        LET L == out.nodeLines
        IN /\ Len(L) = Cardinality({k \in 1..Len(nodes) : nodes[k].mm})
           /\ \A j \in 1..Len(L) :
                 /\ L[j].node \in 0..(Len(nodes) - 1)
                 /\ nodes[L[j].node + 1].mm
                 /\ j > 1 => L[j - 1].node < L[j].node
                 /\ L[j].name.who = RoleOf(L[j].node)
                 /\ L[j].name.who = "UE" => L[j].name.n = L[j].node
                 /\ L[j].x % 10 = 0 /\ L[j].y % 10 = 0
                 /\ Abs(L[j].x - PosCm(nodes[L[j].node + 1]).x) <= 5
                 /\ Abs(L[j].y - PosCm(nodes[L[j].node + 1]).y) <= 5
           /\ ObstacleEntries

\* A listing is written that has an entry, rounded to one decimal, for a node
\* left out of the grid, and an entry for an obstacle that marked no cell.
C21_Witness ==
    /\ Written
    /\ \E j \in 1..Len(out.nodeLines) :
          LET k == out.nodeLines[j].node + 1
          IN /\ Skipped(NodeGx(k), NodeGy(k), W, H)
             /\ out.nodeLines[j].x # PosCm(nodes[k]).x
             /\ out.nodeLines[j].y # PosCm(nodes[k]).y
    /\ \E b \in 1..Len(boundary) :
          /\ boundary[b] = Box(-30, -5, 0, 10, 0, 10)
          /\ out.buildingLines[b].xMax = -500
    /\ \A r \in 1..H : \A c \in 1..W : grid[r][c] # Hash

(***************************************************************************)
(* From a node coordinate to its cell index.                               *)
(***************************************************************************)
\* g is (xc hundredths) / cellMeters rounded to the nearest integer, a half
\* going to the higher integer
IsHalfUp(g, xc) ==
    LET a == 2 * xc * cellMeters.den
        n == 2 * 100 * cellMeters.num
    IN g * n - n \div 2 <= a /\ a < g * n + n \div 2

\* g is (xc hundredths) / cellMeters rounded to the nearest integer, a half
\* going to the integer farther from zero
IsHalfAway(g, xc) ==
    LET a == 2 * xc * cellMeters.den
        n == 2 * 100 * cellMeters.num
    IN IF xc >= 0 THEN g * n - n \div 2 <= a /\ a < g * n + n \div 2
                  ELSE g * n - n \div 2 < a /\ a <= g * n + n \div 2

\* the two integers around (xc hundredths) / cellMeters: no other is nearest
Around(xc) ==
    LET f == (xc * cellMeters.den) \div (100 * cellMeters.num) IN {f, f + 1}

\* The overlay iteration just made, for a node with a mobility model, wrote the
\* cell <<gx, gy>> if it is in the grid and nothing otherwise.
Overlaid(gx, gy) ==
    IF Skipped(gx, gy, W, H) THEN writes = {} ELSE writes = {<<H - 1 - gy, gx>>}

\* C22 as stated: both coordinates of a node are rounded to the nearest cell
\* index with halves rounded up.
C22_RoundHalfUp ==
    (AfterNode /\ nodes[ri].mm) =>
        \E gx \in Around(PosCm(nodes[ri]).x), gy \in Around(PosCm(nodes[ri]).y) :
            /\ IsHalfUp(gx, PosCm(nodes[ri]).x)
            /\ IsHalfUp(gy, PosCm(nodes[ri]).y)
            /\ Overlaid(gx, gy)

\* C22, amended: both coordinates of a node are rounded to the nearest cell
\* index with halves rounded away from zero; a coordinate that is not negative
\* and lies halfway between two cell centres goes to the higher cell, so
\* x = 5.0 with a cell of 10.0 gives cell index 1, and a negative one goes to
\* the lower cell, so x = -5.0 gives -1, which is outside the grid.
C22_RoundHalfAway ==
    (AfterNode /\ nodes[ri].mm) =>
        \E gx \in Around(PosCm(nodes[ri]).x), gy \in Around(PosCm(nodes[ri]).y) :
            /\ IsHalfAway(gx, PosCm(nodes[ri]).x)
            /\ IsHalfAway(gy, PosCm(nodes[ri]).y)
            /\ PosCm(nodes[ri]).x >= 0 => IsHalfUp(gx, PosCm(nodes[ri]).x)
            /\ PosCm(nodes[ri]).y >= 0 => IsHalfUp(gy, PosCm(nodes[ri]).y)
            /\ PosCm(nodes[ri]) = Vector(500, 500) /\ cellMeters = [num |-> 10, den |-> 1]
                  => gx = 1 /\ gy = 1
            /\ Overlaid(gx, gy)

\* The node at (5.0, 5.0) has just been put in cell (1, 1) of a grid of 10 m cells.
C22_Witness ==
    /\ AfterNode
    /\ nodes[ri].mm
    /\ PosCm(nodes[ri]) = Vector(500, 500)
    /\ cellMeters = [num |-> 10, den |-> 1]
    /\ writes = {<<H - 2, 1>>}
    /\ grid[H - 1][2] = nodeChar(ri - 1, Len(nodes))

(***************************************************************************)
(* Rendering twice.                                                        *)
(***************************************************************************)
\* the call that is returning is not the first: a file is already there
ReturnsAgain == rpc = "render" /\ rpc' = "written" /\ out # <<>>

\* C23: a call made again with the same nodes, obstacles, field size and cell
\* size leaves the same grid and writes the same file as the call before it,
\* and what it writes is what a first call writes.
C23_Idempotent ==
    [][ /\ rpc' = "idle" /\ rpc = "written" =>
              /\ nodes' = nodes /\ boundary' = boundary
              /\ fieldMeters' = fieldMeters /\ cellMeters' = cellMeters
        /\ ReturnsAgain =>
              /\ out' = out
              /\ \A r \in 1..H : out.rows[r].line = grid[r]
              /\ out'.dims = <<W, H>> ]_vars

\* A second call has finished its loops, the file of the first still there:
\* its grid holds a building, a node and free cells, as the file's rows do.
C23_Witness ==
    /\ rpc = "render" /\ rb = Len(boundary) /\ ri = Len(nodes)
    /\ out # <<>>
    /\ \E r \in 1..H : \E c \in 1..W : grid[r][c] = Hash
    /\ \E r \in 1..H : \E c \in 1..W : grid[r][c] \in NodeGlyphs
    /\ \E r \in 1..H : \E c \in 1..W : grid[r][c] = Free
    /\ Len(out.nodeLines) >= 2
    /\ \A r \in 1..H : out.rows[r].line = grid[r]

(***************************************************************************)
(* The glyphs of the mesh backhaul grid.                                   *)
(***************************************************************************)
WrittenB == rpc = "writtenB"
AfterTyped == rpc = "renderB" /\ ri >= 1

\* node k of the given type and container index has a mobility model and
\* rounds to the cell (gx, gy)
Holds(gx, gy, type, is) ==
    \E k \in 1..Len(nodes) :
        /\ nodes[k].type = type /\ nodes[k].i \in is /\ nodes[k].mm
        /\ NodeGx(k) = gx /\ NodeGy(k) = gy

\* C24: in the written grid a cell showing 'B' holds the backhaul node, 'D'
\* holds Sadia, 'Y' holds Sayed and a digit holds a mesh node; and the char an
\* STA node is painted with is a letter other than 'B', 'D' and 'Y'.
C24_LegendHolds ==
    /\ WrittenB =>
          \A gx \in 0..(W - 1), gy \in 0..(H - 1) :
              LET ch == CellChar(gx, gy)
              IN /\ ch \in out.legend.backhaul => Holds(gx, gy, "B", {0})
                 /\ ch \in out.legend.sadia => Holds(gx, gy, "SS", {1})
                 /\ ch \in out.legend.sayed => Holds(gx, gy, "SS", {0})
                 /\ ch \in out.legend.mesh => Holds(gx, gy, "M", 0..9)
    /\ (AfterTyped /\ nodes[ri].type = "S") =>
          \A c \in writes :
              /\ grid[c[1] + 1][c[2] + 1] \in Legend.sta
              /\ grid[c[1] + 1][c[2] + 1] \notin Legend.backhaul \cup Legend.sadia \cup Legend.sayed

(***************************************************************************)
(* The avoidance loop.                                                     *)
(***************************************************************************)
\* relocation i was registered by scheduleMoveAvoidingMesh and has installed
Avoided(i) == events[i].avoid /\ Installs(i)

\* C25: a rectangle installed after fewer than 50 shifts contains no anchor;
\* an installed rectangle contains an anchor only after exactly 50 shifts.
C25_EarlyExitClear ==
    \A i \in 1..Len(events) :
        Avoided(i) =>
            /\ calls[i][1].guard < 50 => ~AnchorIn(calls[i][1].box)
            /\ AnchorIn(calls[i][1].box) => calls[i][1].guard = 50

\* One relocation has installed an anchor-free rectangle after 1 to 49 shifts
\* and another a rectangle containing an anchor after 50.
C25_Witness ==
    /\ \E i \in 1..Len(events) :
          /\ Avoided(i)
          /\ calls[i][1].guard \in 1..49
          /\ ~AnchorIn(calls[i][1].box)
    /\ \E j \in 1..Len(events) :
          /\ Avoided(j)
          /\ calls[j][1].guard = 50
          /\ AnchorIn(calls[j][1].box)

\* box has the width and the y range relocation i was registered with
KeepsShape(box, i) ==
    /\ box.xMax - box.xMin = events[i].w
    /\ box.yMin = events[i].desired.y
    /\ box.yMax = events[i].desired.y + events[i].h

\* C26: the candidate of a running avoidance loop, at every iteration, and the
\* rectangle the loop installs have the requested width and the y range
\* desired.y .. desired.y + height, whatever the number of shifts.
C26_SlidesAlongX ==
    /\ cur # 0 => KeepsShape(bx, cur) /\ desired.y = events[cur].desired.y
    /\ \A i \in 1..Len(events) : Avoided(i) => KeepsShape(calls[i][1].box, i)

\* A loop is at its third shift or later, its candidate away from the requested
\* x, while an earlier relocation has installed a shifted rectangle.
C26_Witness ==
    /\ cur # 0
    /\ guard >= 3
    /\ bx.xMin # events[cur].desired.x
    /\ \E i \in 1..Len(events) :
          /\ Avoided(i)
          /\ calls[i][1].guard >= 1
          /\ calls[i][1].box.xMin # events[i].desired.x

\* the candidate of the running loop sits at the clamp with an anchor in it
AtClamp == cur # 0 /\ bx.xMin = field - events[cur].w - 1 /\ AnchorIn(bx)

\* C27: from a candidate at the clamp value field - width - 1 that an anchor
\* overlaps, every further iteration leaves the candidate as it is, the loop
\* ends only with 50 iterations counted, and the rectangle then installed is
\* that candidate, which the anchor overlaps.
C27_StuckAtClamp ==
    [][ AtClamp =>
          /\ cur' = cur => bx' = bx /\ guard' = guard + 1 /\ guard < 50
          /\ cur' # cur =>
                /\ guard = 50
                /\ calls'[cur] = <<[box |-> bx, guard |-> 50]>>
                /\ boundary'[events[cur].b] = bx
                /\ AnchorIn(boundary'[events[cur].b]) ]_vars

\* The loop has counted 50 iterations with its candidate, moved from the
\* requested x, at the clamp and on an anchor.
C27_Witness ==
    /\ AtClamp
    /\ guard = 50
    /\ bx.xMin # events[cur].desired.x

(***************************************************************************)
(* The order relocations take effect in.                                   *)
(***************************************************************************)
\* the relocations of obstacle b that were invoked
FiredFor(b) == {i \in 1..Len(events) : events[i].b = b /\ fired[i] # <<>>}

\* relocation i of obstacle b has the greatest time among those invoked, and
\* among those of that time it was registered last
LastFor(i, b) ==
    /\ i \in FiredFor(b)
    /\ \A j \in FiredFor(b) :
          \/ events[j].at < events[i].at
          \/ events[j].at = events[i].at /\ j <= i

\* C28: a relocation is invoked only when every relocation of an earlier time
\* has been, in whatever order they were registered; when the run has ended the
\* boundary of an obstacle is the rectangle installed by its relocation of the
\* greatest time not after the stop time, or its initial rectangle if it has
\* none; a relocation of a time after the stop time never installs anything.
C28_TimeOrder ==
    /\ [][ \A i \in 1..Len(events) :
              (fired[i] = <<>> /\ fired'[i] # <<>>) =>
                  /\ events[i].at <= simTime
                  /\ \A j \in 1..Len(events) :
                        events[j].at < events[i].at => fired[j] # <<>> /\ calls[j] # <<>> ]_vars
    /\ [](phase = "done" =>
            \A b \in DOMAIN boundary :
                IF FiredFor(b) = {}
                THEN boundary[b] = InitialBoundaries[b]
                ELSE \E i \in FiredFor(b) :
                        /\ LastFor(i, b)
                        /\ events[i].at <= simTime
                        /\ boundary[b] = calls[i][1].box)
    /\ [](\A i \in 1..Len(events) :
            events[i].at > simTime =>
                /\ fired[i] = <<>> /\ calls[i] = <<>>
                /\ (\A j \in 1..Len(events) : j # i => events[j].b # events[i].b)
                      => boundary[events[i].b] = InitialBoundaries[events[i].b])

\* The run has ended; an obstacle had two relocations, the later one registered
\* first, and its boundary is the rectangle of the later one.
C28_Witness ==
    /\ phase = "done"
    /\ Len(events) = 2
    /\ events[1].b = events[2].b
    /\ events[1].at = 5 /\ events[2].at = 2
    /\ calls[1] # <<>> /\ calls[2] # <<>>
    /\ calls[1][1].box # calls[2][1].box
    /\ boundary[events[1].b] = calls[1][1].box

(***************************************************************************)
(* The grid and the relocations.                                           *)
(***************************************************************************)
\* the rectangle obstacle b was created with covers cell (gx, gy)
CoversInitially(b, gx, gy) ==
    /\ Max(0, FloorCell(InitialBoundaries[b].xMin)) <= gx
    /\ gx <= Min(W - 1, FloorCell(InitialBoundaries[b].xMax))
    /\ Max(0, FloorCell(InitialBoundaries[b].yMin)) <= gy
    /\ gy <= Min(H - 1, FloorCell(InitialBoundaries[b].yMax))

\* the '#' cells of the file and its obstacle listing are those of the
\* rectangles the obstacles were created with
ShowsInitial ==
    /\ \A gx \in 0..(W - 1), gy \in 0..(H - 1) :
          LET ch == out.rows[(H - 1 - gy) + 1].line[gx + 1]
              marked == \E b \in 1..Len(InitialBoundaries) : CoversInitially(b, gx, gy)
          IN /\ ch = Hash => marked
             /\ (marked /\ ~\E k \in 1..Len(nodes) : NodeGx(k) = gx /\ NodeGy(k) = gy)
                   => ch = Hash
    /\ Len(out.buildingLines) = Len(InitialBoundaries)
    /\ \A b \in 1..Len(InitialBoundaries) :
          /\ out.buildingLines[b].xMin = 100 * InitialBoundaries[b].xMin
          /\ out.buildingLines[b].xMax = 100 * InitialBoundaries[b].xMax
          /\ out.buildingLines[b].yMin = 100 * InitialBoundaries[b].yMin
          /\ out.buildingLines[b].yMax = 100 * InitialBoundaries[b].yMax

\* C29: WriteAsciiPositionGrid runs during setup, before any event of the
\* timeline; the file it writes shows the rectangles the obstacles were created
\* with, whether relocations were registered before the call or not, and the
\* file stays as written while the relocations run.
C29_RenderedBeforeRun ==
    /\ [](rpc = "render" =>
            /\ phase = "render" /\ now = 0
            /\ \A i \in 1..Len(events) : fired[i] = <<>> /\ calls[i] = <<>>)
    /\ [][(rpc = "render" /\ rpc' = "written") => ShowsInitial']_vars
    /\ [][rpc = "written" => out' = out /\ grid' = grid /\ rpc' = "written"]_vars

\* The run has ended and a relocation has moved its obstacle onto other cells,
\* while the file shows '#' where the obstacle was created and none where it is.
C29_Witness ==
    /\ phase = "done"
    /\ rpc = "written"
    /\ boundary[5] = Box(200, 280, 180, 188, 0, 10)
    /\ out.rows[(H - 1 - 2) + 1].line[1 + 1] = Hash
    /\ out.rows[(H - 1 - 1) + 1].line[2 + 1] = Free
    /\ out.buildingLines[5].xMin = 8000

(***************************************************************************)
(* Nodes on one cell.                                                      *)
(***************************************************************************)
\* the place of a container in the order backhaul, mesh, STA, Sayed and Sadia
Rank(type) ==
    IF type = "B" THEN 1 ELSE IF type = "M" THEN 2 ELSE IF type = "S" THEN 3 ELSE 4

\* node j of the mesh backhaul grid comes before node k: an earlier container,
\* or the same container and a lower index
Before(j, k) ==
    \/ Rank(nodes[j].type) < Rank(nodes[k].type)
    \/ Rank(nodes[j].type) = Rank(nodes[k].type) /\ nodes[j].i < nodes[k].i

\* the nodes that are painted on cell (gx, gy)
OnCell(gx, gy) == {k \in 1..Len(nodes) : InBounds(k) /\ NodeGx(k) = gx /\ NodeGy(k) = gy}

\* C30: a cell that several nodes round to shows the glyph of the one painted
\* last and of no other: the node of highest input index in the grid of part_000,
\* and in the mesh backhaul grid the node of the last container in the order
\* backhaul, mesh, STA, Sayed and Sadia, of highest index in that container.
C30_LastPaintedShows ==
    /\ rpc = "written" =>
          \A k \in 1..Len(nodes) :
              (InBounds(k) /\ \A j \in OnCell(NodeGx(k), NodeGy(k)) : j <= k)
                  => CellChar(NodeGx(k), NodeGy(k)) = nodeChar(k - 1, Len(nodes))
    /\ rpc = "writtenB" =>
          \A k \in 1..Len(nodes) :
              (InBounds(k) /\ \A j \in OnCell(NodeGx(k), NodeGy(k)) : j = k \/ Before(j, k))
                  => CellChar(NodeGx(k), NodeGy(k)) = GlyphOf(nodes[k])

\* A mesh backhaul grid is written in which the backhaul node, mesh nodes, STA
\* nodes, Sayed and Sadia round to one cell, which shows Sadia's 'D'.
C30_Witness ==
    /\ rpc = "writtenB"
    /\ \E gx \in 0..(W - 1), gy \in 0..(H - 1) :
          /\ \A t \in {"B", "M", "S", "SS"} : \E k \in OnCell(gx, gy) : nodes[k].type = t
          /\ Cardinality(OnCell(gx, gy)) >= 6
          /\ CellChar(gx, gy) = CharD
          /\ \E k \in OnCell(gx, gy) : nodes[k].type = "SS" /\ nodes[k].i = 1

====
